---- MODULE Spec2Model ----
(***************************************************************************)
(* Model of the board cutting-stock engine of one-less-board:              *)
(*   optimizeBoardCuts (scrap-first best-fit-descending packing),          *)
(*   toOptimizedBoard / classifyRemaining (leftover classification) and    *)
(*   mergeCuts (requirement normalisation).                                *)
(*                                                                         *)
(* Lengths are JavaScript numbers in inches.  The model keeps them as      *)
(* integers on a fixed grid of "ticks": one inch is Micro * TicksPerMicro  *)
(* ticks, so the grid is finer than the 1e-6 precision classifyRemaining   *)
(* rounds to and the rounding is a real operation on the grid.  Sums,      *)
(* differences and comparisons of lengths are exact on the grid (binary    *)
(* floating-point error is not modelled).                                  *)
(***************************************************************************)
EXTENDS Integers, Sequences, FiniteSets

VARIABLES
    requiredCuts,    \* argument: sequence of [length, quantity]
    scrap,           \* argument options.scrap: sequence of [stockLength, quantity]
    allowedLengths,  \* argument spec.allowedLengths: sequence of lengths
    kerf,            \* argument spec.kerf
    preferredMax,    \* argument options.preferredMaxLengthInches: <<>> or <<v>>
    pc,              \* position inside optimizeBoardCuts
    sortedCuts,      \* local sortedCuts
    boards,          \* local boards of placeCutsOntoBoards (the scrap pool copy)
    unassigned,      \* local unassigned
    newBoards,       \* local boards of placeCutsOntoNewBoards
    idx,             \* position of the running for-of loop
    result,          \* local result, the returned list once pc = "done"
    calls,           \* number of invocations started so far
    prev,            \* what the previous invocation returned
    original,        \* <<arguments>> of the first call once a call on other
                     \* arguments has followed it, else <<>>
    arrays,          \* identities of the cuts arrays: of the scrapPool entries
                     \* (pool), of boards, newBoards and result (position by
                     \* position), and the next identity not yet given out
    mcIn,            \* mergeCuts: argument cuts
    mcByKey,         \* mergeCuts: the Map byKey, as its values in insertion order
    mcIdx,           \* mergeCuts: position of the for-of loop
    mcOut,           \* mergeCuts: returned list
    mcPc,            \* mergeCuts: position
    mcFirst,         \* mergeCuts: <<argument>> of the first of two calls, else <<>>
    mcPrev,          \* mergeCuts: <<returned list>> of the first of two calls, else <<>>
    groups,          \* App state groups: the material groups
    groupCounter,    \* material-groups groupCounter: group ids given out so far
    scrapInventory,  \* App state scrapInventory: the board entries on hand
    useScrapWhenGenerating, \* App state useScrapWhenGenerating
    projectResult,   \* App state projectResult: <<>> for null, else <<result>>
    lastRunScrapNote, \* App state lastRunScrapNote: <<>> for null, else <<note>>
    draftError,      \* ScrapInventoryModal state draftError: <<>> for null
    diagramSpecIds   \* whether the diagrams of generateProjectResult carry the
                     \* group's boardSpecId, which handleGenerate reads

optVars == <<requiredCuts, scrap, allowedLengths, kerf, preferredMax, pc,
             sortedCuts, boards, unassigned, newBoards, idx, result, calls, prev,
             original, arrays>>
mcVars == <<mcIn, mcByKey, mcIdx, mcOut, mcPc, mcFirst, mcPrev>>
appVars == <<groups, groupCounter, scrapInventory, useScrapWhenGenerating,
             projectResult, lastRunScrapNote, draftError, diagramSpecIds>>
vars == <<optVars, mcVars, appVars>>

----------------------------------------------------------------------------
(* Units and bounds *)

\* ticks per 1e-6 inch: the resolution of the grid below the rounding step
TicksPerMicro == 4
\* the 1e6 of Math.round(remainingWaste * 1e6) / 1e6
Micro == 1000000
Inch == Micro * TicksPerMicro

\* requested units (summed quantity) in requiredCuts
MaxUnits == 4
\* scrap units (summed quantity) in options.scrap
MaxScrapUnits == 2
\* invocations of optimizeBoardCuts in one behaviour
MaxCalls == 2
\* requested units in requiredCuts when the call is repeated
MaxRepeatUnits == 3
\* requested units in requiredCuts when the lengths are FineLengths
MaxFineUnits == 2
\* entries in the argument of mergeCuts
MaxMerge == 3
\* quantity of one entry in the argument of mergeCuts
MaxMergeQty == 2

\* requested units in requiredCuts when the call is followed to its end
MaxFairUnits == 2
\* scrap units in options.scrap when the call is followed to its end
MaxFairScrapUnits == 1
\* requested units and scrap units when scrap lengths are NearLengths
MaxNearUnits == 2
MaxNearScrapUnits == 2
\* entries of requiredCuts when entries may be invalid
MaxDirtyCuts == 2
\* entries of options.scrap when entries may be invalid
MaxDirtyScrap == 1

\* Numbers off the grid are kept as reserved codes.  Infinity is above and
\* -Infinity below every number of the grid, so <, <=, > and >= order them as
\* JavaScript does; NaN needs its own comparison.
PosInfinity == 1073741824
NegInfinity == 0 - PosInfinity
NaN == NegInfinity - 1
\* 1.5: a finite positive number that is not an integer (used as a quantity)
OneAndAHalf == PosInfinity - 1

\* Number.isFinite(v)
isFinite(v) == v \notin {NaN, PosInfinity, NegInfinity}

\* Number.isInteger(v), for a quantity v
isInteger(v) == isFinite(v) /\ v # OneAndAHalf

\* a <= b: false when either side is NaN
lessOrEqual(a, b) == a # NaN /\ b # NaN /\ a <= b

SeqsUpTo(S, n) == UNION {[1..k -> S] : k \in 0..n}

RECURSIVE SumSeq(_)
SumSeq(s) == IF s = <<>> THEN 0 ELSE Head(s) + SumSeq(Tail(s))

Max2(a, b) == IF a >= b THEN a ELSE b

----------------------------------------------------------------------------
(* Shared geometry helpers (identical closures in both placement functions) *)

usedLength(cuts, kerfInches) ==
    IF Len(cuts) = 0 THEN 0
    ELSE SumSeq(cuts) + (Len(cuts) - 1) * kerfInches

remaining(board, kerfInches) ==
    board.stockLength - usedLength(board.cuts, kerfInches)

\* canFit with > in place of >=: a cut that fills the board exactly is refused
canFitStrict(board, cut, kerfInches) ==
    remaining(board, kerfInches) >
        cut + (IF Len(board.cuts) > 0 THEN kerfInches ELSE 0)

\* canFit without needKerf
canFitNoKerf(board, cut, kerfInches) ==
    remaining(board, kerfInches) >= cut

canFit(board, cut, kerfInches) ==
    LET needKerf == IF Len(board.cuts) > 0 THEN kerfInches ELSE 0
    IN  remaining(board, kerfInches) >= cut + needKerf

\* The inner for-of loop over boards: index of the accepting board with the
\* smallest remaining length after placement, the first one on ties; 0 for null.
\* best = 0 stands for bestRemainingAfter = Infinity.
RECURSIVE BestFitFrom(_, _, _, _, _, _)
BestFitFrom(bs, cut, kerfInches, i, best, bestRemainingAfter) ==
    IF i > Len(bs) THEN best
    ELSE IF ~canFit(bs[i], cut, kerfInches)
         THEN BestFitFrom(bs, cut, kerfInches, i + 1, best, bestRemainingAfter)
         ELSE LET remAfter == remaining(bs[i], kerfInches) - cut
              IN  IF best = 0 \/ remAfter < bestRemainingAfter
                  THEN BestFitFrom(bs, cut, kerfInches, i + 1, i, remAfter)
                  ELSE BestFitFrom(bs, cut, kerfInches, i + 1, best,
                                   bestRemainingAfter)

\* a Phase 1 loop that finds no board for any cut
findsNoBoard(bs, cut, kerfInches) == 0

bestBoard(bs, cut, kerfInches) == BestFitFrom(bs, cut, kerfInches, 1, 0, 0)

\* a Phase 2 loop that never looks at the boards it opened
neverReuse(bs, cut, kerfInches) == 0

\* the same inner loop in placeCutsOntoNewBoards, over the boards it opened
bestNewBoard(bs, cut, kerfInches) == BestFitFrom(bs, cut, kerfInches, 1, 0, 0)

\* bestBoard.cuts.push(cut)
pushCut(bs, b, cut) ==
    [bs EXCEPT ![b] = [@ EXCEPT !.cuts = Append(@, cut)]]

----------------------------------------------------------------------------
(* Leftover classification *)

\* Math.round(x * 1e6) / 1e6 on the grid: to the nearest 1e-6, halves up
roundMicro(v) ==
    ((2 * v + TicksPerMicro) \div (2 * TicksPerMicro)) * TicksPerMicro

MIN_SCRAP_LENGTH_INCHES == 12 * Inch

\* classifyRemaining with > in place of >=
classifyRemainingStrict(remainingWaste) ==
    LET r == Max2(0, roundMicro(remainingWaste))
    IN  IF r > MIN_SCRAP_LENGTH_INCHES
        THEN [scrapRemaining |-> r, wasteRemaining |-> 0]
        ELSE [scrapRemaining |-> 0, wasteRemaining |-> r]

classifyRemaining(remainingWaste) ==
    LET r == Max2(0, roundMicro(remainingWaste))
    IN  IF r >= MIN_SCRAP_LENGTH_INCHES
        THEN [scrapRemaining |-> r, wasteRemaining |-> 0]
        ELSE [scrapRemaining |-> 0, wasteRemaining |-> r]

toOptimizedBoard(board, source, kerfInches) ==
    LET used == IF Len(board.cuts) = 0 THEN 0
                ELSE SumSeq(board.cuts) + (Len(board.cuts) - 1) * kerfInches
        remainingWaste == Max2(0, board.stockLength - used)
        cl == classifyRemaining(remainingWaste)
    IN  [stockLength    |-> board.stockLength,
         cuts           |-> board.cuts,
         remainingWaste |-> remainingWaste,
         scrapRemaining |-> cl.scrapRemaining,
         wasteRemaining |-> cl.wasteRemaining,
         source         |-> source]

RECURSIVE toOptimizedBoards(_, _, _)
toOptimizedBoards(bs, source, kerfInches) ==
    IF bs = <<>> THEN <<>>
    ELSE <<toOptimizedBoard(Head(bs), source, kerfInches)>>
         \o toOptimizedBoards(Tail(bs), source, kerfInches)

----------------------------------------------------------------------------
(* Expansion and sorting in optimizeBoardCuts *)

\* quantity copies of x
RECURSIVE Copies(_, _)
Copies(x, n) == IF n <= 0 THEN <<>> ELSE <<x>> \o Copies(x, n - 1)

\* the guard below without the two <= 0 tests
validEntryFiniteOnly(length, quantity) ==
    ~(~isFinite(length) \/ ~isInteger(quantity))

\* the guard of both expansion loops, negated: the entry is not skipped
validEntry(length, quantity) ==
    ~(lessOrEqual(length, 0) \/ lessOrEqual(quantity, 0)
      \/ ~isFinite(length) \/ ~isInteger(quantity))

\* the loop below with i <= quantity
repeatLengthOneMore(length, quantity) == Copies(length, quantity + 1)

\* for (let i = 0; i < quantity; i++) cutsList.push(length)
repeatLength(length, quantity) == Copies(length, quantity)

RECURSIVE cutsList(_)
cutsList(req) ==
    IF req = <<>> THEN <<>>
    ELSE (IF validEntry(Head(req).length, Head(req).quantity)
          THEN repeatLength(Head(req).length, Head(req).quantity)
          ELSE <<>>) \o cutsList(Tail(req))

\* the loop below with i <= quantity
scrapUnitsOneMore(e) ==
    Copies([stockLength |-> e.stockLength, cuts |-> <<>>], e.quantity + 1)

\* the inner loop of the scrap expansion: one empty board per unit
scrapUnits(e) ==
    Copies([stockLength |-> e.stockLength, cuts |-> <<>>], e.quantity)

RECURSIVE scrapPool(_)
scrapPool(sc) ==
    IF sc = <<>> THEN <<>>
    ELSE (IF validEntry(Head(sc).stockLength, Head(sc).quantity)
          THEN scrapUnits(Head(sc))
          ELSE <<>>) \o scrapPool(Tail(sc))

\* Array.prototype.sort is stable: x goes after every element it is not before.
\* Comparator (a, b) => b - a: x before y iff x > y.
RECURSIVE insertDescending(_, _)
insertDescending(s, x) ==
    IF s = <<>> THEN <<x>>
    ELSE IF x > Head(s) THEN <<x>> \o s
         ELSE <<Head(s)>> \o insertDescending(Tail(s), x)

\* the cuts left in the order of the requirement list
inOrderGiven(s) == s

\* [...cutsList].sort((a, b) => b - a)
RECURSIVE sortDescending(_)
sortDescending(s) ==
    IF s = <<>> THEN <<>>
    ELSE insertDescending(sortDescending(SubSeq(s, 1, Len(s) - 1)), s[Len(s)])

----------------------------------------------------------------------------
(* Phase 2 helpers of placeCutsOntoNewBoards *)

\* a <= preferred, with preferred = preferredMaxLengthInches ?? Infinity
prefer(a, pm) == IF pm = <<>> \/ a <= pm[1] THEN 0 ELSE 1

\* a comparator that puts the longest stock first
longestFirst(a, b, pm) == a > b

\* the comparator of sortedStock: aPrefer - bPrefer, then a - b
stockBefore(a, b, pm) ==
    IF prefer(a, pm) # prefer(b, pm) THEN prefer(a, pm) < prefer(b, pm)
    ELSE a < b

RECURSIVE insertStock(_, _, _)
insertStock(s, x, pm) ==
    IF s = <<>> THEN <<x>>
    ELSE IF stockBefore(x, Head(s), pm) THEN <<x>> \o s
         ELSE <<Head(s)>> \o insertStock(Tail(s), x, pm)

\* [...allowedLengths].sort(...)
RECURSIVE sortedStock(_, _)
sortedStock(allowed, pm) ==
    IF allowed = <<>> THEN <<>>
    ELSE insertStock(sortedStock(SubSeq(allowed, 1, Len(allowed) - 1), pm),
                     allowed[Len(allowed)], pm)

RECURSIVE MinSeq(_)
MinSeq(s) == IF Len(s) = 1 THEN s[1]
             ELSE LET m == MinSeq(Tail(s)) IN IF s[1] <= m THEN s[1] ELSE m

\* the largest allowed length taken for the smallest
longestStock(allowed) ==
    CHOOSE x \in {allowed[i] : i \in 1..Len(allowed)} :
        \A i \in 1..Len(allowed) : allowed[i] <= x

minStock(allowed) == MinSeq(allowed)

\* the loop without the minStock test
skipNever(cut, allowed) == FALSE

\* if (cut > minStock) continue
skipCut(cut, allowed) == cut > minStock(allowed)

\* a loop that does not move on after a skipped cut
staysOnSkippedCut(i, skipped) == IF skipped THEN i ELSE i + 1

\* a loop that passes over the cut after each one it handled
passesOverNext(i, skipped) == i + 2

\* for (const cut of sortedCuts): continue moves on to the next cut, as the
\* end of the body does
afterCut(i, skipped) == i + 1

\* first stock of sortedStock that is >= cut: <<stock>>, or <<>> for null
RECURSIVE shortestStockThatFits(_, _)
shortestStockThatFits(stocks, cut) ==
    IF stocks = <<>> THEN <<>>
    ELSE IF Head(stocks) >= cut THEN <<Head(stocks)>>
         ELSE shortestStockThatFits(Tail(stocks), cut)

\* the boards returned whether they hold a cut or not
usedOrNot(bs) == bs

\* boards.filter((b) => b.cuts.length > 0)
RECURSIVE placed(_)
placed(bs) ==
    IF bs = <<>> THEN <<>>
    ELSE (IF Len(Head(bs).cuts) > 0 THEN <<Head(bs)>> ELSE <<>>)
         \o placed(Tail(bs))

\* Phase 2 going on with the scrap boards Phase 1 used
startsFromScrap(bs) == placed(bs)

\* const boards = [] in placeCutsOntoNewBoards, whatever Phase 1 left in bs
openedAtStart(bs) == <<>>

\* the guard without kerf < 0
invalidSpecNoKerf(allowed, k) == Len(allowed) = 0

\* allowedLengths.length === 0 || kerf < 0
invalidSpec(allowed, k) == Len(allowed) = 0 \/ k < 0

\* a result list kept from the previous invocation
staleResult == result

\* const result: OptimizedBoard[] = []
freshResult == <<>>

\* the argument arrays requiredCuts, options.scrap and spec.allowedLengths
InputArrays == {1, 2, 3}

\* n arrays made by [], [cut] or [...x]: identities never given out before
newArrays(next, n) == [i \in 1..n |-> next + i - 1]

\* allowedLengths.sort(...): the argument itself is sorted
sortedInPlace(allowed, pm) == sortedStock(allowed, pm)

\* allowedLengths once [...allowedLengths].sort(...) has sorted the copy
afterSortOfCopy(allowed, pm) == allowed

----------------------------------------------------------------------------
(* Inputs *)

Eighth == Inch \div 8

CutLengths == {24 * Inch, 36 * Inch, 80 * Inch}
\* 36 in plus 0, 1, ... , TicksPerMicro ticks: up to a millionth of an inch more
FineLengths == {36 * Inch + d : d \in 0..TicksPerMicro}
ScrapLengths == {48 * Inch, 60 * Inch}
Kerfs == {0 - Eighth, 0, Eighth}
Catalogs == {<<>>, <<96 * Inch>>, <<96 * Inch, 48 * Inch>>}
PreferredMaxes == {<<>>, <<48 * Inch>>}

\* requirement lists over the lengths Ls with at most n units in all
RECURSIVE ReqLists(_, _)
ReqLists(Ls, n) ==
    {<<>>} \cup
    UNION {{<<[length |-> l, quantity |-> q]>> \o r : r \in ReqLists(Ls, n - q)} :
           l \in Ls, q \in 1..n}

\* scrap lists over the stock lengths Ls with at most n units in all
RECURSIVE ScrapListsOver(_, _)
ScrapListsOver(Ls, n) ==
    {<<>>} \cup
    UNION {{<<[stockLength |-> l, quantity |-> q]>> \o r : r \in ScrapListsOver(Ls, n - q)} :
           l \in Ls, q \in 1..n}

\* scrap lists with at most n units in all
RECURSIVE ScrapLists(_)
ScrapLists(n) ==
    {<<>>} \cup
    UNION {{<<[stockLength |-> l, quantity |-> q]>> \o r : r \in ScrapLists(n - q)} :
           l \in ScrapLengths, q \in 1..n}

----------------------------------------------------------------------------
(* optimizeBoardCuts as a state machine *)

McIdle ==
    /\ mcIn = <<>>
    /\ mcByKey = <<>>
    /\ mcIdx = 0
    /\ mcOut = <<>>
    /\ mcPc = "idle"
    /\ mcFirst = <<>>
    /\ mcPrev = <<>>

\* no application around the two functions
AppIdle ==
    /\ groups = <<>>
    /\ groupCounter = 0
    /\ scrapInventory = <<>>
    /\ useScrapWhenGenerating = TRUE
    /\ projectResult = <<>>
    /\ lastRunScrapNote = <<>>
    /\ draftError = <<>>
    /\ diagramSpecIds = FALSE

OptIdle ==
    /\ pc = "idle"
    /\ sortedCuts = <<>>
    /\ boards = <<>>
    /\ unassigned = <<>>
    /\ newBoards = <<>>
    /\ idx = 0
    /\ result = <<>>
    /\ calls = 0
    /\ prev = <<>>
    /\ original = <<>>
    /\ arrays = [pool |-> <<>>, boards |-> <<>>, newBoards |-> <<>>,
                 result |-> <<>>, next |-> Cardinality(InputArrays) + 1]

InitOver(Ls, n) ==
    /\ requiredCuts \in ReqLists(Ls, n)
    /\ scrap \in ScrapLists(MaxScrapUnits)
    /\ allowedLengths \in Catalogs
    /\ kerf \in Kerfs
    /\ preferredMax \in PreferredMaxes
    /\ OptIdle
    /\ AppIdle
    /\ McIdle

Init == InitOver(CutLengths, MaxUnits)

inputs == <<requiredCuts, scrap, allowedLengths, kerf, preferredMax>>

\* Entry of optimizeBoardCuts up to the start of the Phase 1 loop: the catalog
\* guard, the requirement expansion and sort, the scrap expansion and the pool
\* copy of placeCutsOntoBoards.
Enter(req, sc) ==
    /\ requiredCuts' = req
    /\ scrap' = sc
    /\ calls' = calls + 1
    /\ prev' = result
    /\ LET cuts == cutsList(req)
           pool == scrapPool(sc)
       IN
       IF invalidSpec(allowedLengths, kerf) \/ cuts = <<>>
       THEN /\ result' = <<>>
            /\ pc' = "done"
            /\ sortedCuts' = <<>>
            /\ boards' = <<>>
            /\ idx' = 0
            /\ arrays' = [pool |-> <<>>, boards |-> <<>>, newBoards |-> <<>>,
                          result |-> <<>>, next |-> arrays.next]
       ELSE /\ result' = freshResult
            /\ pc' = "phase1"
            /\ sortedCuts' = sortDescending(cuts)
            /\ boards' = pool
            /\ idx' = 1
            /\ LET n == Len(pool)
               IN  arrays' = [pool      |-> newArrays(arrays.next, n),
                              boards    |-> newArrays(arrays.next + n, n),
                              newBoards |-> <<>>,
                              result    |-> <<>>,
                              next      |-> arrays.next + 2 * n]
    /\ unassigned' = <<>>
    /\ newBoards' = <<>>
    /\ UNCHANGED <<allowedLengths, kerf, preferredMax, mcVars, appVars>>

\* An invocation with the arguments at hand.
Call ==
    /\ Enter(requiredCuts, scrap)
    /\ UNCHANGED original

Invoke ==
    /\ pc = "idle"
    /\ Call

\* A further invocation with the same arguments, after the previous one returned.
Reinvoke ==
    /\ pc = "done"
    /\ calls < MaxCalls
    /\ Call

\* One iteration of the for-of loop of placeCutsOntoBoards.
Phase1Step ==
    /\ pc = "phase1"
    /\ idx <= Len(sortedCuts)
    /\ LET cut == sortedCuts[idx]
           b == bestBoard(boards, cut, kerf)
       IN  IF b # 0
           THEN /\ boards' = pushCut(boards, b, cut)
                /\ unassigned' = unassigned
           ELSE /\ unassigned' = Append(unassigned, cut)
                /\ boards' = boards
    /\ idx' = idx + 1
    /\ UNCHANGED <<inputs, pc, sortedCuts, newBoards, result, calls, prev, original,
                   arrays, mcVars, appVars>>

\* End of placeCutsOntoBoards: the used scrap boards go to the result, and
\* placeCutsOntoNewBoards starts on the unassigned cuts.
Phase1End ==
    /\ pc = "phase1"
    /\ idx > Len(sortedCuts)
    /\ result' = result \o toOptimizedBoards(placed(boards), "scrap", kerf)
    /\ LET n == Len(placed(boards))
       IN  arrays' = [arrays EXCEPT !.result = @ \o newArrays(arrays.next, n),
                                    !.next = @ + n]
    /\ pc' = "phase2"
    /\ idx' = 1
    /\ newBoards' = openedAtStart(boards)
    /\ allowedLengths' = IF unassigned = <<>> THEN allowedLengths
                         ELSE afterSortOfCopy(allowedLengths, preferredMax)
    /\ UNCHANGED <<requiredCuts, scrap, kerf, preferredMax, sortedCuts, boards,
                   unassigned, calls, prev, original, mcVars, appVars>>

\* One iteration of the for-of loop of placeCutsOntoNewBoards.
Phase2Step ==
    /\ pc = "phase2"
    /\ idx <= Len(unassigned)
    /\ LET cut == unassigned[idx]
           b == bestNewBoard(newBoards, cut, kerf)
           stock == shortestStockThatFits(sortedStock(allowedLengths, preferredMax), cut)
       IN  IF skipCut(cut, allowedLengths)
           THEN UNCHANGED <<newBoards, arrays>>
           ELSE IF b # 0
           THEN /\ newBoards' = pushCut(newBoards, b, cut)
                /\ UNCHANGED arrays
           ELSE IF stock = <<>>
           THEN UNCHANGED <<newBoards, arrays>>
           ELSE /\ newBoards' =
                       Append(newBoards, [stockLength |-> stock[1], cuts |-> <<cut>>])
                /\ arrays' = [arrays EXCEPT
                                  !.newBoards = @ \o newArrays(arrays.next, 1),
                                  !.next = @ + 1]
    /\ idx' = afterCut(idx, skipCut(unassigned[idx], allowedLengths))
    /\ UNCHANGED <<inputs, pc, sortedCuts, boards, unassigned, result, calls, prev,
                   original, mcVars, appVars>>

\* End of placeCutsOntoNewBoards: the new boards go to the result, which is returned.
Phase2End ==
    /\ pc = "phase2"
    /\ idx > Len(unassigned)
    /\ result' = result \o toOptimizedBoards(newBoards, "new", kerf)
    /\ LET n == Len(newBoards)
       IN  arrays' = [arrays EXCEPT !.result = @ \o newArrays(arrays.next, n),
                                    !.next = @ + n]
    /\ pc' = "done"
    /\ UNCHANGED <<inputs, sortedCuts, boards, unassigned, newBoards, idx, calls, prev,
                   original, mcVars, appVars>>

Next == Invoke \/ Phase1Step \/ Phase1End \/ Phase2Step \/ Phase2End

Spec == Init /\ [][Next]_vars

\* The same function on lengths that differ by less than the rounding step.
InitFine == InitOver(FineLengths, MaxFineUnits)

SpecFine == InitFine /\ [][Next]_vars

\* The same function invoked again with the same arguments.
NextRepeat == Next \/ Reinvoke

InitRepeat == InitOver(CutLengths, MaxRepeatUnits)

SpecRepeat == InitRepeat /\ [][NextRepeat]_vars

\* One invocation run to its end: the function is synchronous, so a step that
\* can be taken is taken.
InitFair ==
    /\ requiredCuts \in ReqLists(CutLengths, MaxFairUnits)
    /\ scrap \in ScrapLists(MaxFairScrapUnits)
    /\ allowedLengths \in Catalogs
    /\ kerf \in Kerfs
    /\ preferredMax \in PreferredMaxes
    /\ OptIdle
    /\ AppIdle
    /\ McIdle

SpecFair == InitFair /\ [][Next]_vars /\ WF_vars(Next)

\* The same function on a scrap pool where a used board and an unused board
\* have free lengths that differ by one kerf.
NearLengths == {48 * Inch, 128 * Inch + Eighth}

InitNear ==
    /\ requiredCuts \in ReqLists({24 * Inch, 80 * Inch}, MaxNearUnits)
    /\ scrap \in ScrapListsOver(NearLengths, MaxNearScrapUnits)
    /\ allowedLengths = <<96 * Inch>>
    /\ kerf \in {0, Eighth}
    /\ preferredMax = <<>>
    /\ OptIdle
    /\ AppIdle
    /\ McIdle

SpecNear == InitNear /\ [][Next]_vars

----------------------------------------------------------------------------
(* mergeCuts as a state machine *)

DEFAULT_MATERIAL_TYPE == "board"

\* an omitted materialType
Omitted == "omitted"

\* c.materialType ?? DEFAULT_MATERIAL_TYPE
materialTypeOf(c) ==
    IF c.materialType = Omitted THEN DEFAULT_MATERIAL_TYPE ELSE c.materialType

\* typeof value === "number" holds for every value of the model
isValidLength(value) == isFinite(value) /\ value > 0

isValidQuantity(value) == isFinite(value) /\ value > 0 /\ isInteger(value)

\* `${length}:${materialType}`: distinct for distinct pairs
key(length, materialType) == <<length, materialType>>

\* byKey.get(k): position of the entry with key k among the values, 0 if none
existing(byKey, k) ==
    IF \E i \in 1..Len(byKey) : key(byKey[i].length, byKey[i].materialType) = k
    THEN CHOOSE i \in 1..Len(byKey) :
             key(byKey[i].length, byKey[i].materialType) = k
    ELSE 0

\* = in place of +=
overwriteQuantity(e, c) == [e EXCEPT !.quantity = c.quantity]

\* existing.quantity += c.quantity
addQuantity(e, c) == [e EXCEPT !.quantity = @ + c.quantity]

\* the body of the for-of loop over cuts
mergeOne(byKey, c) ==
    IF ~isValidLength(c.length) \/ ~isValidQuantity(c.quantity) THEN byKey
    ELSE LET mt == materialTypeOf(c)
             e == existing(byKey, key(c.length, mt))
         IN  IF e # 0
             THEN [byKey EXCEPT ![e] = addQuantity(@, c)]
             ELSE Append(byKey, [length |-> c.length, quantity |-> c.quantity,
                                 materialType |-> mt])

\* a sort that puts an entry before the earlier entries of its length
RECURSIVE insertBeforeEqual(_, _)
insertBeforeEqual(s, x) ==
    IF s = <<>> THEN <<x>>
    ELSE IF x.length >= Head(s).length THEN <<x>> \o s
         ELSE <<Head(s)>> \o insertBeforeEqual(Tail(s), x)

\* stable sort with comparator (a, b) => b.length - a.length
RECURSIVE insertByLength(_, _)
insertByLength(s, x) ==
    IF s = <<>> THEN <<x>>
    ELSE IF x.length > Head(s).length THEN <<x>> \o s
         ELSE <<Head(s)>> \o insertByLength(Tail(s), x)

RECURSIVE sortByLengthDescending(_)
sortByLengthDescending(s) ==
    IF s = <<>> THEN <<>>
    ELSE insertByLength(sortByLengthDescending(SubSeq(s, 1, Len(s) - 1)), s[Len(s)])

MergeLengths == {24 * Inch, 36 * Inch}
MaterialTypes == {Omitted, "board", "sheet"}
MergeEntries ==
    [length : MergeLengths, quantity : 0..MaxMergeQty, materialType : MaterialTypes]

\* mergeCuts entered with its argument, before the first loop iteration
InitMerge ==
    /\ mcIn \in SeqsUpTo(MergeEntries, MaxMerge)
    /\ mcByKey = <<>>
    /\ mcIdx = 1
    /\ mcOut = <<>>
    /\ mcPc = "loop"
    /\ mcFirst = <<>>
    /\ mcPrev = <<>>
    /\ requiredCuts = <<>>
    /\ scrap = <<>>
    /\ allowedLengths = <<>>
    /\ kerf = 0
    /\ preferredMax = <<>>
    /\ OptIdle
    /\ AppIdle

\* One iteration of the for-of loop of mergeCuts.
MergeStep ==
    /\ mcPc = "loop"
    /\ mcIdx <= Len(mcIn)
    /\ mcByKey' = mergeOne(mcByKey, mcIn[mcIdx])
    /\ mcIdx' = mcIdx + 1
    /\ UNCHANGED <<mcIn, mcOut, mcPc, mcFirst, mcPrev, optVars, appVars>>

\* return [...byKey.values()].sort(...).map(...)
MergeReturn ==
    /\ mcPc = "loop"
    /\ mcIdx > Len(mcIn)
    /\ mcOut' = sortByLengthDescending(mcByKey)
    /\ mcPc' = "done"
    /\ UNCHANGED <<mcIn, mcByKey, mcIdx, mcFirst, mcPrev, optVars, appVars>>

NextMerge == MergeStep \/ MergeReturn

SpecMerge == InitMerge /\ [][NextMerge]_vars

\* A second call of mergeCuts, on the argument x, after the first one returned.
MergeCall(x) ==
    /\ mcPc = "done"
    /\ mcFirst = <<>>
    /\ mcFirst' = <<mcIn>>
    /\ mcPrev' = <<mcOut>>
    /\ mcIn' = x
    /\ mcByKey' = <<>>
    /\ mcIdx' = 1
    /\ mcOut' = <<>>
    /\ mcPc' = "loop"
    /\ UNCHANGED <<optVars, appVars>>

\* mergeCuts(mergeCuts(x)): the returned list is the argument of the second call
MergeMerged == MergeCall(mcOut)

NextMergeTwice == NextMerge \/ MergeMerged

SpecMergeTwice == InitMerge /\ [][NextMergeTwice]_vars

----------------------------------------------------------------------------
(* Both functions on lists that may hold invalid entries: the list goes to *)
(* mergeCuts and then, as it is, to optimizeBoardCuts; each function is    *)
(* called a second time on the list without its invalid entries.           *)

\* one valid pair, and one entry for each way of being invalid
DirtyCutEntries ==
    [length : {24 * Inch},
     quantity : {1, 0, 0 - 1, OneAndAHalf, NaN, PosInfinity},
     materialType : {Omitted}]
    \cup [length : {0, 0 - 24 * Inch, NaN, PosInfinity, NegInfinity},
          quantity : {1},
          materialType : {Omitted}]
    \cup {[length |-> 36 * Inch, quantity |-> 2, materialType |-> "sheet"]}

DirtyScrapEntries ==
    [stockLength : {48 * Inch}, quantity : {1, 0, OneAndAHalf}]
    \cup [stockLength : {0, NaN, PosInfinity}, quantity : {1}]

\* length finite and > 0, quantity a finite integer > 0
validPair(length, quantity) ==
    /\ length \notin {NaN, PosInfinity, NegInfinity}
    /\ length > 0
    /\ quantity \notin {NaN, PosInfinity, NegInfinity, OneAndAHalf}
    /\ quantity > 0

validCut(e) == validPair(e.length, e.quantity)

validScrap(e) == validPair(e.stockLength, e.quantity)

InitInvalid ==
    /\ requiredCuts \in SeqsUpTo(DirtyCutEntries, MaxDirtyCuts)
    /\ scrap \in SeqsUpTo(DirtyScrapEntries, MaxDirtyScrap)
    /\ allowedLengths = <<96 * Inch>>
    /\ kerf = Eighth
    /\ preferredMax = <<>>
    /\ OptIdle
    /\ AppIdle
    /\ mcIn = requiredCuts
    /\ mcByKey = <<>>
    /\ mcIdx = 1
    /\ mcOut = <<>>
    /\ mcPc = "loop"
    /\ mcFirst = <<>>
    /\ mcPrev = <<>>

\* mergeCuts on its first argument without the invalid entries
MergeCleaned == MergeCall(SelectSeq(mcIn, validCut))

\* optimizeBoardCuts on the list as given, once both mergeCuts calls returned
InvokeGiven ==
    /\ mcPc = "done"
    /\ mcFirst # <<>>
    /\ Invoke

\* optimizeBoardCuts on its first arguments without the invalid entries
InvokeCleaned ==
    /\ pc = "done"
    /\ original = <<>>
    /\ original' = <<[requiredCuts |-> requiredCuts, scrap |-> scrap]>>
    /\ Enter(SelectSeq(requiredCuts, validCut), SelectSeq(scrap, validScrap))

NextInvalid ==
    \/ MergeStep \/ MergeReturn \/ MergeCleaned
    \/ InvokeGiven \/ InvokeCleaned
    \/ Phase1Step \/ Phase1End \/ Phase2Step \/ Phase2End

SpecInvalid == InitInvalid /\ [][NextInvalid]_vars

----------------------------------------------------------------------------
(* optimizeBoardCuts called a second time on another list of the same cut  *)
(* units: the entries reordered, one entry split in two, or the list       *)
(* mergeCuts returned for it.                                              *)

MaxSameUnits == 3

SameLengths == {24 * Inch, 80 * Inch}

\* requirement lists of at most n units in all, with or without a material type
RECURSIVE SameLists(_)
SameLists(n) ==
    {<<>>} \cup
    UNION {{<<[length |-> l, quantity |-> q, materialType |-> mt]>> \o r :
              r \in SameLists(n - q)} :
           l \in SameLengths, q \in 1..n, mt \in {Omitted, "sheet"}}

\* the lists holding the entries of s in another order
Reorderings(s) ==
    LET I == 1..Len(s)
    IN  {[i \in I |-> s[f[i]]] :
            f \in {g \in [I -> I] : \A i, j \in I : g[i] = g[j] => i = j}}

\* the lists holding two entries of the same length in place of one entry of s
Splittings(s) ==
    UNION {{SubSeq(s, 1, i - 1)
            \o <<[s[i] EXCEPT !.quantity = q],
                 [s[i] EXCEPT !.quantity = s[i].quantity - q]>>
            \o SubSeq(s, i + 1, Len(s)) : q \in 1..(s[i].quantity - 1)} :
           i \in 1..Len(s)}

InitSame ==
    /\ requiredCuts \in SameLists(MaxSameUnits)
    /\ scrap \in {<<>>, <<[stockLength |-> 48 * Inch, quantity |-> 1]>>}
    /\ allowedLengths = <<96 * Inch>>
    /\ kerf \in {0, Eighth}
    /\ preferredMax = <<>>
    /\ OptIdle
    /\ AppIdle
    /\ mcIn = requiredCuts
    /\ mcByKey = <<>>
    /\ mcIdx = 1
    /\ mcOut = <<>>
    /\ mcPc = "loop"
    /\ mcFirst = <<>>
    /\ mcPrev = <<>>

\* optimizeBoardCuts on the list as given, once mergeCuts returned
InvokeAfterMerge ==
    /\ mcPc = "done"
    /\ Invoke

\* optimizeBoardCuts on the requirement list req and the same other arguments
InvokeOn(req) ==
    /\ pc = "done"
    /\ original = <<>>
    /\ original' = <<[requiredCuts |-> requiredCuts, scrap |-> scrap]>>
    /\ Enter(req, scrap)

InvokeReordered == \E req \in Reorderings(requiredCuts) : InvokeOn(req)

InvokeSplit == \E req \in Splittings(requiredCuts) : InvokeOn(req)

\* optimizeBoardCuts(mergeCuts(requiredCuts), ...)
InvokeMerged == InvokeOn(mcOut)

NextSame ==
    \/ MergeStep \/ MergeReturn
    \/ InvokeAfterMerge \/ InvokeReordered \/ InvokeSplit \/ InvokeMerged
    \/ Phase1Step \/ Phase1End \/ Phase2Step \/ Phase2End

SpecSame == InitSame /\ [][NextSame]_vars

----------------------------------------------------------------------------
(* optimizeBoardCuts as a function of its arguments, as its callers see it *)

\* placeCutsOntoBoards: the for-of loop over the cuts and the returned pair
RECURSIVE placeCutsOntoBoards(_, _, _, _)
placeCutsOntoBoards(bs, cuts, kerfInches, un) ==
    IF cuts = <<>> THEN [placed |-> placed(bs), unassigned |-> un]
    ELSE LET cut == Head(cuts)
             b == bestBoard(bs, cut, kerfInches)
         IN  IF b # 0
             THEN placeCutsOntoBoards(pushCut(bs, b, cut), Tail(cuts), kerfInches, un)
             ELSE placeCutsOntoBoards(bs, Tail(cuts), kerfInches, Append(un, cut))

\* placeCutsOntoNewBoards: the for-of loop over the cuts and the returned boards
RECURSIVE placeCutsOntoNewBoards(_, _, _, _, _)
placeCutsOntoNewBoards(nb, cuts, allowed, kerfInches, pm) ==
    IF cuts = <<>> THEN nb
    ELSE LET cut == Head(cuts)
             b == bestNewBoard(nb, cut, kerfInches)
             stock == shortestStockThatFits(sortedStock(allowed, pm), cut)
             next == IF skipCut(cut, allowed) THEN nb
                     ELSE IF b # 0 THEN pushCut(nb, b, cut)
                     ELSE IF stock = <<>> THEN nb
                     ELSE Append(nb, [stockLength |-> stock[1], cuts |-> <<cut>>])
         IN  placeCutsOntoNewBoards(next, Tail(cuts), allowed, kerfInches, pm)

\* optimizeBoardCuts(requiredCuts, spec, options)
optimizeBoardCuts(req, spec, options) ==
    LET cuts == cutsList(req)
    IN  IF invalidSpec(spec.allowedLengths, spec.kerf) \/ cuts = <<>> THEN <<>>
        ELSE LET p1 == placeCutsOntoBoards(scrapPool(options.scrap),
                                           sortDescending(cuts), spec.kerf, <<>>)
                 nb == placeCutsOntoNewBoards(openedAtStart(p1.placed), p1.unassigned,
                                              spec.allowedLengths, spec.kerf,
                                              options.preferredMaxLengthInches)
             IN  toOptimizedBoards(p1.placed, "scrap", spec.kerf)
                 \o toOptimizedBoards(nb, "new", spec.kerf)

\* optimizeCuts: the dispatcher on profile.materialType
optimizeCuts(req, profile, options) ==
    IF profile.materialType = "board"
    THEN optimizeBoardCuts(req, profile, options)
    ELSE <<>>

----------------------------------------------------------------------------
(* generateProjectResult: one optimizeCuts call per material group, and the *)
(* shopping list made of the boards to purchase                            *)

\* the profiles as BoardSpec: materialType is "board" for each of them
STOCK_PROFILES ==
    LET upTo16 == <<96 * Inch, 120 * Inch, 144 * Inch, 192 * Inch>>
        upTo12 == <<96 * Inch, 120 * Inch, 144 * Inch>>
        upTo10 == <<96 * Inch, 120 * Inch>>
        profile(id, name, lengths) ==
            [id |-> id, name |-> name, allowedLengths |-> lengths,
             kerf |-> Eighth, materialType |-> "board"]
    IN  <<profile("2x4", "2x4 dimensional", upTo16),
          profile("2x6", "2x6 dimensional", upTo16),
          profile("2x8", "2x8 dimensional", upTo12),
          profile("1x6", "1x6 dimensional", upTo12),
          profile("4-4-hardwood", "4/4 hardwood", upTo12),
          profile("6-4-hardwood", "6/4 hardwood", upTo10)>>

\* STOCK_PROFILES.find((p) => p.id === id): <<profile>>, or <<>> for undefined
findProfile(id) ==
    LET I == {i \in 1..Len(STOCK_PROFILES) : STOCK_PROFILES[i].id = id}
    IN  IF I = {} THEN <<>>
        ELSE <<STOCK_PROFILES[CHOOSE i \in I : \A j \in I : i <= j]>>

\* (c.materialType ?? "board") === "board"
isBoardCut(c) == materialTypeOf(c) = "board"

\* a filter that keeps the boards of either source
ofAnySource(b) == TRUE

\* (b) => b.source === "new"
toBePurchased(b) == b.source = "new"

\* entry.byLength.set(len, (entry.byLength.get(len) ?? 0) + 1), the Map as
\* its entries in insertion order
countBoard(byLength, len) ==
    IF \E i \in 1..Len(byLength) : byLength[i].stockLength = len
    THEN [i \in 1..Len(byLength) |->
             IF byLength[i].stockLength = len
             THEN [byLength[i] EXCEPT !.count = @ + 1]
             ELSE byLength[i]]
    ELSE Append(byLength, [stockLength |-> len, count |-> 1])

\* for (const b of toPurchase) ...
RECURSIVE countBoards(_, _)
countBoards(byLength, bs) ==
    IF bs = <<>> THEN byLength
    ELSE countBoards(countBoard(byLength, Head(bs).stockLength), Tail(bs))

\* shoppingByNominal after the boards of one group, the Map as its entries in
\* insertion order
purchase(shopping, boardSpec, optimized) ==
    LET toPurchase == SelectSeq(optimized, toBePurchased)
        known == \E i \in 1..Len(shopping) : shopping[i].nominalSizeId = boardSpec.id
        entries == IF known THEN shopping
                   ELSE Append(shopping, [nominalSizeId |-> boardSpec.id,
                                          name |-> boardSpec.name,
                                          byLength |-> <<>>])
        e == CHOOSE i \in 1..Len(entries) : entries[i].nominalSizeId = boardSpec.id
    IN  IF toPurchase = <<>> THEN shopping
        ELSE [entries EXCEPT ![e].byLength = countBoards(@, toPurchase)]

\* the diagram of a group; boardSpecId is <<>> when the diagram carries none
diagramOf(group, optimized, kerfInches, materialType) ==
    [groupId |-> group.id,
     boards |-> optimized,
     kerfInches |-> kerfInches,
     preferredMaxLengthInches |->
         IF materialType = "sheet" THEN <<>> ELSE <<group.maxLengthPreferenceInches>>,
     materialType |-> materialType,
     boardSpecId |-> IF diagramSpecIds /\ materialType = "board"
                     THEN <<group.boardSpecId>> ELSE <<>>]

\* the body of the loop over the groups
forGroup(acc, group, scrapGiven) ==
    LET recap == Append(acc.cutListRecap,
                     [groupId |-> group.id,
                      cuts |-> IF group.materialType = "board" THEN group.cuts ELSE <<>>,
                      sheetPieces |-> IF group.materialType = "sheet"
                                      THEN group.sheetPieces ELSE <<>>])
        boardSpec == findProfile(group.boardSpecId)
        boardCuts == SelectSeq(group.cuts, isBoardCut)
    IN  IF group.materialType = "sheet"
        THEN [acc EXCEPT
                 !.cutListRecap = recap,
                 !.diagrams = Append(@, diagramOf(group, <<>>, 0, "sheet")),
                 !.shoppingListSheets =
                     IF Len(group.sheetPieces) > 0
                     THEN Append(@, [groupId |-> group.id, sheetCount |-> 0])
                     ELSE @]
        ELSE IF boardSpec = <<>> \/ boardCuts = <<>>
        THEN [acc EXCEPT
                 !.cutListRecap = recap,
                 !.diagrams =
                     Append(@, diagramOf(group, <<>>,
                                         IF boardSpec = <<>> THEN 0 ELSE boardSpec[1].kerf,
                                         "board"))]
        ELSE LET optimized ==
                     optimizeCuts(boardCuts, boardSpec[1],
                                  [scrap |-> scrapGiven,
                                   preferredMaxLengthInches |->
                                       <<group.maxLengthPreferenceInches>>])
             IN  [acc EXCEPT
                     !.cutListRecap = recap,
                     !.diagrams = Append(@, diagramOf(group, optimized, boardSpec[1].kerf,
                                                      "board")),
                     !.shoppingByNominal = purchase(@, boardSpec[1], optimized)]

RECURSIVE forGroups(_, _, _)
forGroups(acc, gs, scrapGiven) ==
    IF gs = <<>> THEN acc
    ELSE forGroups(forGroup(acc, Head(gs), scrapGiven), Tail(gs), scrapGiven)

\* stable sort with comparator (a, b) => a.stockLength - b.stockLength
RECURSIVE insertByStockLength(_, _)
insertByStockLength(s, x) ==
    IF s = <<>> THEN <<x>>
    ELSE IF x.stockLength < Head(s).stockLength THEN <<x>> \o s
         ELSE <<Head(s)>> \o insertByStockLength(Tail(s), x)

RECURSIVE sortByStockLength(_)
sortByStockLength(s) ==
    IF s = <<>> THEN <<>>
    ELSE insertByStockLength(sortByStockLength(SubSeq(s, 1, Len(s) - 1)), s[Len(s)])

\* the shopping list before its sort by NOMINAL_SIZE_ORDER
shoppingListOf(shopping) ==
    [i \in 1..Len(shopping) |->
        [nominalSizeId |-> shopping[i].nominalSizeId,
         nominalSizeName |-> shopping[i].name,
         items |-> sortByStockLength(shopping[i].byLength)]]

\* generateProjectResult(groups, {scrap}): the results it may return. The
\* shopping list is sorted by the position of the ids in NOMINAL_SIZE_ORDER,
\* a list the sources do not hold: every order of the entries is taken.
generateProjectResult(gs, scrapGiven) ==
    LET acc == forGroups([shoppingByNominal |-> <<>>, shoppingListSheets |-> <<>>,
                          cutListRecap |-> <<>>, diagrams |-> <<>>],
                         gs, scrapGiven)
    IN  {[shoppingList |-> sl,
          shoppingListSheets |-> acc.shoppingListSheets,
          cutListRecap |-> acc.cutListRecap,
          diagrams |-> acc.diagrams] :
            sl \in Reorderings(shoppingListOf(acc.shoppingByNominal))}

----------------------------------------------------------------------------
(* The scrap inventory of the App: mergeScrapBoards, handleGenerate and the *)
(* handlers of ScrapInventoryModal. The inventory of the model holds board *)
(* entries only.                                                           *)

\* the guard of the loop of mergeScrapBoards, negated: the entry is not skipped
validScrapBoard(e) ==
    ~(e.nominalSizeId = "" \/ lessOrEqual(e.stockLength, 0)
      \/ lessOrEqual(e.quantity, 0)
      \/ ~isFinite(e.stockLength) \/ ~isInteger(e.quantity))

\* the body of the loop of mergeScrapBoards, the Map as its values in
\* insertion order
mergeScrapBoard(byKey, e) ==
    IF ~validScrapBoard(e) THEN byKey
    ELSE IF \E i \in 1..Len(byKey) :
                /\ byKey[i].nominalSizeId = e.nominalSizeId
                /\ byKey[i].stockLength = e.stockLength
         THEN [i \in 1..Len(byKey) |->
                  IF /\ byKey[i].nominalSizeId = e.nominalSizeId
                     /\ byKey[i].stockLength = e.stockLength
                  THEN [byKey[i] EXCEPT !.quantity = @ + e.quantity]
                  ELSE byKey[i]]
         ELSE Append(byKey, [nominalSizeId |-> e.nominalSizeId,
                             stockLength |-> e.stockLength,
                             quantity |-> e.quantity])

RECURSIVE mergeScrapBoardsInto(_, _)
mergeScrapBoardsInto(byKey, sc) ==
    IF sc = <<>> THEN byKey
    ELSE mergeScrapBoardsInto(mergeScrapBoard(byKey, Head(sc)), Tail(sc))

mergeScrapBoards(sc) == mergeScrapBoardsInto(<<>>, sc)

isBoardEntry(e) == e.materialType = "board"

\* mergeScrapEntries: the board entries merged, each given materialType "board"
mergeScrapEntries(sc) ==
    LET merged == mergeScrapBoards(SelectSeq(sc, isBoardEntry))
    IN  [i \in 1..Len(merged) |->
            [materialType |-> "board",
             nominalSizeId |-> merged[i].nominalSizeId,
             stockLength |-> merged[i].stockLength,
             quantity |-> merged[i].quantity]]

\* the source = scrap boards of stock length L in a diagram
scrapBoardsOf(diagram, L) ==
    Cardinality({j \in 1..Len(diagram.boards) :
                    /\ diagram.boards[j].source = "scrap"
                    /\ diagram.boards[j].stockLength = L})

\* if (diagram.materialType !== "board" || !diagram.boardSpecId) continue
counted(diagram) ==
    /\ diagram.materialType = "board"
    /\ diagram.boardSpecId # <<>>
    /\ diagram.boardSpecId[1] # ""

\* usedFromScrap.get(`${nominalSizeId}:${stockLength}`) ?? 0 after the loop
\* over the diagrams
RECURSIVE usedFromScrap(_, _, _)
usedFromScrap(diagrams, nominalSizeId, stockLength) ==
    IF diagrams = <<>> THEN 0
    ELSE (IF counted(Head(diagrams)) /\ Head(diagrams).boardSpecId[1] = nominalSizeId
          THEN scrapBoardsOf(Head(diagrams), stockLength)
          ELSE 0)
         + usedFromScrap(Tail(diagrams), nominalSizeId, stockLength)

\* [...usedFromScrap.values()].reduce((sum, n) => sum + n, 0)
RECURSIVE usedCount(_)
usedCount(diagrams) ==
    IF diagrams = <<>> THEN 0
    ELSE (IF counted(Head(diagrams))
          THEN Cardinality({j \in 1..Len(Head(diagrams).boards) :
                               Head(diagrams).boards[j].source = "scrap"})
          ELSE 0)
         + usedCount(Tail(diagrams))

\* an inventory update that adds the used boards
quantityPlusUsed(quantity, usedQty) == quantity + usedQty

\* const nextQty = entry.quantity - usedQty
nextQty(quantity, usedQty) == quantity - usedQty

\* boardScrap.map(...).filter((entry) => entry !== null)
RECURSIVE remainingBoardScrap(_, _)
remainingBoardScrap(boardScrap, diagrams) ==
    IF boardScrap = <<>> THEN <<>>
    ELSE LET entry == Head(boardScrap)
             q == nextQty(entry.quantity,
                          usedFromScrap(diagrams, entry.nominalSizeId, entry.stockLength))
         IN  (IF q > 0 THEN <<[entry EXCEPT !.quantity = q]>> ELSE <<>>)
             \o remainingBoardScrap(Tail(boardScrap), diagrams)

\* mergeScrapEntries([...nonBoardScrap, ...remainingBoardScrap]); the
\* inventory holds board entries only
scrapAfterRun(inv, diagrams) ==
    mergeScrapEntries(remainingBoardScrap(SelectSeq(inv, isBoardEntry), diagrams))

\* options.scrap of the generateProjectResult call of handleGenerate
scrapPassed == IF useScrapWhenGenerating THEN scrapInventory ELSE <<>>

handleGenerate ==
    /\ \E res \in generateProjectResult(groups, scrapPassed) :
           /\ projectResult' = <<res>>
           /\ IF ~useScrapWhenGenerating
              THEN /\ lastRunScrapNote' = <<[note |-> "not used", usedCount |-> 0]>>
                   /\ UNCHANGED scrapInventory
              ELSE /\ scrapInventory' = scrapAfterRun(scrapInventory, res.diagrams)
                   /\ lastRunScrapNote' =
                          <<[note |-> IF usedCount(res.diagrams) = 0
                                      THEN "none consumed" ELSE "consumed",
                             usedCount |-> usedCount(res.diagrams)]>>
    /\ UNCHANGED <<groups, groupCounter, useScrapWhenGenerating, draftError,
                   diagramSpecIds, optVars, mcVars>>

\* onChange={(e) => setUseScrapWhenGenerating(e.target.checked)}
setUseScrapWhenGenerating ==
    /\ useScrapWhenGenerating' \in BOOLEAN
    /\ UNCHANGED <<groups, groupCounter, scrapInventory, projectResult,
                   lastRunScrapNote, draftError, diagramSpecIds, optVars, mcVars>>

\* material groups of one call
MaxGroups == 2
\* boards on hand in the scrap inventory
MaxOnHand == 2

\* "Default 96 (8 ft)"
DEFAULT_MAX_BOARD_LENGTH_INCHES == 96 * Inch

\* createBoardGroup(): nextId() and the defaults; label, drafts and sheet
\* stock sizes are left out
createBoardGroup(id) ==
    [id |-> id, materialType |-> "board", boardSpecId |-> STOCK_PROFILES[1].id,
     maxLengthPreferenceInches |-> DEFAULT_MAX_BOARD_LENGTH_INCHES,
     cuts |-> <<>>, sheetPieces |-> <<>>]

\* the cuts of a group as the user may have entered them
GroupCuts ==
    LET c(l, q) == [length |-> l * Inch, quantity |-> q, materialType |-> "board"]
    IN  {<<>>, <<c(40, 2)>>, <<c(90, 1), c(40, 1)>>}

\* a group after updateGroup calls: board groups of two specs, a board group
\* whose spec is no profile, and a sheet group with one piece
GroupsAfterUpdates(id) ==
    {[createBoardGroup(id) EXCEPT !.boardSpecId = sp, !.cuts = cs] :
        sp \in {"2x4", "2x6"}, cs \in GroupCuts}
    \cup {[createBoardGroup(id) EXCEPT !.boardSpecId = "", !.cuts = cs] :
             cs \in {<<[length |-> 40 * Inch, quantity |-> 1, materialType |-> "board"]>>}}
    \cup {[createBoardGroup(id) EXCEPT
               !.materialType = "sheet",
               !.sheetPieces = <<[width |-> 24, height |-> 24, quantity |-> 1]>>]}

\* lists of n groups at most, the ids in the order of creation
RECURSIVE GroupLists(_)
GroupLists(n) ==
    IF n = 0 THEN {<<>>}
    ELSE GroupLists(n - 1) \cup
         UNION {{Append(gs, g) : g \in GroupsAfterUpdates(Len(gs) + 1)} :
                gs \in {x \in GroupLists(n - 1) : Len(x) = n - 1}}

ScrapKeys == {<<"2x4", 48 * Inch>>, <<"2x6", 60 * Inch>>}

\* merged inventories over the keys K with n boards at most: one entry per
\* key, each of a quantity >= 1
RECURSIVE Inventories(_, _)
Inventories(K, n) ==
    {<<>>} \cup
    UNION {{<<[materialType |-> "board", nominalSizeId |-> k[1],
               stockLength |-> k[2], quantity |-> q]>> \o r :
              r \in Inventories(K \ {k}, n - q)} :
           k \in K, q \in 1..n}

\* The App with its groups entered and its inventory loaded: no call of
\* optimizeBoardCuts or mergeCuts of its own is followed step by step.
InitApp ==
    /\ groups \in GroupLists(MaxGroups)
    /\ groupCounter = Len(groups)
    /\ scrapInventory \in Inventories(ScrapKeys, MaxOnHand)
    /\ useScrapWhenGenerating = TRUE
    /\ projectResult = <<>>
    /\ lastRunScrapNote = <<>>
    /\ draftError = <<>>
    /\ diagramSpecIds \in BOOLEAN
    /\ requiredCuts = <<>>
    /\ scrap = <<>>
    /\ allowedLengths = <<>>
    /\ kerf = 0
    /\ preferredMax = <<>>
    /\ OptIdle
    /\ McIdle

NextProject == handleGenerate \/ setUseScrapWhenGenerating

SpecProject == InitApp /\ [][NextProject]_vars

----------------------------------------------------------------------------
(* The handlers of ScrapInventoryModal on the board entries of the inventory *)

\* boards in the inventory, and the largest quantity typed into a field
MaxStock == 3

\* a < b on numbers
lessThan(a, b) == a # NaN /\ b # NaN /\ a < b

\* what the draft row may hold: boardDraft.nominalSizeId, and the values
\* parseLength (parseFloat) and parseQuantity (parseInt) return for its fields
DraftSizes == {"", "2x4", "2x6"}
DraftLengths == {NaN, PosInfinity, 0, 48 * Inch}
DraftQuantities == {NaN, 0 - 1, 0} \cup 1..MaxStock

\* the total of the quantities on hand
RECURSIVE totalOnHand(_)
totalOnHand(inv) ==
    IF inv = <<>> THEN 0 ELSE Head(inv).quantity + totalOnHand(Tail(inv))

\* addBoardDraft with a draft row at hand
addBoardDraft ==
    /\ \E nominalSizeId \in DraftSizes, stockLength \in DraftLengths,
          quantity \in DraftQuantities :
           IF nominalSizeId = ""
           THEN draftError' = <<"size">> /\ UNCHANGED scrapInventory
           ELSE IF ~isValidLength(stockLength)
           THEN draftError' = <<"length">> /\ UNCHANGED scrapInventory
           ELSE IF ~isValidQuantity(quantity)
           THEN draftError' = <<"quantity">> /\ UNCHANGED scrapInventory
           ELSE /\ totalOnHand(scrapInventory) + quantity <= MaxStock
                /\ scrapInventory' =
                       mergeScrapEntries(
                           Append(scrapInventory,
                                  [materialType |-> "board",
                                   nominalSizeId |-> nominalSizeId,
                                   stockLength |-> stockLength,
                                   quantity |-> quantity]))
                /\ draftError' = <<>>
    /\ UNCHANGED <<groups, groupCounter, useScrapWhenGenerating, projectResult,
                   lastRunScrapNote, diagramSpecIds, optVars, mcVars>>

\* the filter of removeBoardScrap: the entries kept
RECURSIVE withoutBoardScrap(_, _, _)
withoutBoardScrap(inv, nominalSizeId, stockLength) ==
    IF inv = <<>> THEN <<>>
    ELSE (IF /\ Head(inv).materialType = "board"
             /\ Head(inv).nominalSizeId = nominalSizeId
             /\ Head(inv).stockLength = stockLength
          THEN <<>> ELSE <<Head(inv)>>)
         \o withoutBoardScrap(Tail(inv), nominalSizeId, stockLength)

\* an update that stores the quantity of the field whatever it is
anyQuantity(newQuantity) == FALSE

\* if (!Number.isInteger(newQuantity)) return
refusedQuantity(newQuantity) == ~isInteger(newQuantity)

\* updateBoardQuantity(nominalSizeId, stockLength, newQuantity): the next inventory
withBoardQuantity(inv, nominalSizeId, stockLength, newQuantity) ==
    IF lessThan(newQuantity, 1) THEN withoutBoardScrap(inv, nominalSizeId, stockLength)
    ELSE IF refusedQuantity(newQuantity) THEN inv
    ELSE [i \in 1..Len(inv) |->
             IF /\ inv[i].materialType = "board"
                /\ inv[i].nominalSizeId = nominalSizeId
                /\ inv[i].stockLength = stockLength
             THEN [inv[i] EXCEPT !.quantity = newQuantity]
             ELSE inv[i]]

\* the rows of the table: the keys a handler may be called with
RowSizes == {"2x4", "2x6"}
RowLengths == {48 * Inch, 60 * Inch}
NewQuantities == {NaN, OneAndAHalf, 0 - 1, 0} \cup 1..MaxStock

removeBoardScrap ==
    /\ \E nominalSizeId \in RowSizes, stockLength \in RowLengths :
           scrapInventory' = withoutBoardScrap(scrapInventory, nominalSizeId, stockLength)
    /\ UNCHANGED <<groups, groupCounter, useScrapWhenGenerating, projectResult,
                   lastRunScrapNote, draftError, diagramSpecIds, optVars, mcVars>>

updateBoardQuantity ==
    /\ \E nominalSizeId \in RowSizes, stockLength \in RowLengths,
          newQuantity \in NewQuantities :
           scrapInventory' =
               withBoardQuantity(scrapInventory, nominalSizeId, stockLength, newQuantity)
    /\ UNCHANGED <<groups, groupCounter, useScrapWhenGenerating, projectResult,
                   lastRunScrapNote, draftError, diagramSpecIds, optVars, mcVars>>

\* a 2x4 group alone, or with a 2x6 group after it
ScrapRunGroups ==
    LET c(l, q) == [length |-> l * Inch, quantity |-> q, materialType |-> "board"]
        g1 == [createBoardGroup(1) EXCEPT !.cuts = <<c(40, 2)>>]
        g2 == [createBoardGroup(2) EXCEPT !.boardSpecId = "2x6",
                                          !.cuts = <<c(90, 1), c(40, 1)>>]
    IN  {<<g1>>, <<g1, g2>>}

\* The App with its groups entered, the inventory as loadScrapFromStorage
\* merged it, and the inventory dialog open.
InitScrap ==
    /\ groups \in ScrapRunGroups
    /\ groupCounter = Len(groups)
    /\ scrapInventory \in Inventories(ScrapKeys, MaxOnHand)
    /\ useScrapWhenGenerating = TRUE
    /\ projectResult = <<>>
    /\ lastRunScrapNote = <<>>
    /\ draftError = <<>>
    /\ diagramSpecIds \in BOOLEAN
    /\ requiredCuts = <<>>
    /\ scrap = <<>>
    /\ allowedLengths = <<>>
    /\ kerf = 0
    /\ preferredMax = <<>>
    /\ OptIdle
    /\ McIdle

NextScrap ==
    \/ addBoardDraft \/ removeBoardScrap \/ updateBoardQuantity
    \/ handleGenerate \/ setUseScrapWhenGenerating

SpecScrap == InitScrap /\ [][NextScrap]_vars

----------------------------------------------------------------------------
(* The list of material groups of the App *)

\* groups created in one session
MaxGroupIds == 5

\* updateGroup(id, updater) with an updater that selects a board spec
updateGroup ==
    /\ \E id \in 1..MaxGroupIds, boardSpecId \in {"2x4", "2x6"} :
           groups' = [i \in 1..Len(groups) |->
                         IF groups[i].id = id
                         THEN [groups[i] EXCEPT !.boardSpecId = boardSpecId]
                         ELSE groups[i]]
    /\ UNCHANGED <<groupCounter, scrapInventory, useScrapWhenGenerating, projectResult,
                   lastRunScrapNote, draftError, diagramSpecIds, optVars, mcVars>>

\* setGroups((prev) => [...prev, createBoardGroup(...)])
addMaterialGroup ==
    /\ groupCounter < MaxGroupIds
    /\ groupCounter' = groupCounter + 1
    /\ groups' = Append(groups, createBoardGroup(groupCounter + 1))
    /\ UNCHANGED <<scrapInventory, useScrapWhenGenerating, projectResult,
                   lastRunScrapNote, draftError, diagramSpecIds, optVars, mcVars>>

\* a removal that filters whatever the length of the list
filteredAlways(gs, id) == SelectSeq(gs, LAMBDA g : g.id # id)

\* prev.length <= 1 ? prev : prev.filter((g) => g.id !== id)
withoutGroup(gs, id) ==
    IF Len(gs) <= 1 THEN gs ELSE SelectSeq(gs, LAMBDA g : g.id # id)

\* removeGroup(id), the id of a group shown or of one removed before
removeGroup ==
    /\ \E id \in 1..MaxGroupIds : groups' = withoutGroup(groups, id)
    /\ UNCHANGED <<groupCounter, scrapInventory, useScrapWhenGenerating, projectResult,
                   lastRunScrapNote, draftError, diagramSpecIds, optVars, mcVars>>

\* useState(() => [createDefaultGroup()])
InitGroups ==
    /\ groups = <<createBoardGroup(1)>>
    /\ groupCounter = 1
    /\ scrapInventory = <<>>
    /\ useScrapWhenGenerating = TRUE
    /\ projectResult = <<>>
    /\ lastRunScrapNote = <<>>
    /\ draftError = <<>>
    /\ diagramSpecIds = FALSE
    /\ requiredCuts = <<>>
    /\ scrap = <<>>
    /\ allowedLengths = <<>>
    /\ kerf = 0
    /\ preferredMax = <<>>
    /\ OptIdle
    /\ McIdle

NextGroups == updateGroup \/ addMaterialGroup \/ removeGroup

SpecGroups == InitGroups /\ [][NextGroups]_vars

----------------------------------------------------------------------------
(* Vocabulary of the properties *)

Done == pc = "done"

Indices(s) == 1..Len(s)

\* number of positions of s holding x
Count(s, x) == Cardinality({i \in Indices(s) : s[i] = x})

\* the lengths asked for, and how many units of each: the summed quantity of
\* the valid entries of that length
RECURSIVE Requested(_, _)
Requested(req, L) ==
    IF req = <<>> THEN 0
    ELSE (IF Head(req).length = L /\ Head(req).length > 0 /\ Head(req).quantity > 0
          THEN Head(req).quantity ELSE 0) + Requested(Tail(req), L)

\* units of stock length L in the scrap input
RECURSIVE ScrapOnHand(_, _)
ScrapOnHand(sc, L) ==
    IF sc = <<>> THEN 0
    ELSE (IF Head(sc).stockLength = L /\ Head(sc).stockLength > 0
             /\ Head(sc).quantity > 0
          THEN Head(sc).quantity ELSE 0) + ScrapOnHand(Tail(sc), L)

ResultOf(source) == {i \in Indices(result) : result[i].source = source}

\* units of length L on the returned boards of the given indices
RECURSIVE PlacedOn(_, _)
PlacedOn(I, L) ==
    IF I = {} THEN 0
    ELSE LET i == CHOOSE j \in I : TRUE
         IN  Count(result[i].cuts, L) + PlacedOn(I \ {i}, L)

AllLengths ==
    {requiredCuts[i].length : i \in Indices(requiredCuts)} \cup
    UNION {{result[i].cuts[j] : j \in Indices(result[i].cuts)} : i \in Indices(result)}

\* sum(cuts) + kerf * (number of cuts - 1) <= stockLength
KerfFeasible(stockLength, cuts) ==
    SumSeq(cuts) + kerf * (Len(cuts) - 1) <= stockLength

\* the cuts of `cs` that the assignment f sends to unit u, in order
RECURSIVE AssignedTo(_, _, _, _)
AssignedTo(cs, f, u, i) ==
    IF i > Len(cs) THEN <<>>
    ELSE (IF f[i] = u THEN <<cs[i]>> ELSE <<>>) \o AssignedTo(cs, f, u, i + 1)

\* some assignment of all requested units to the scrap units is kerf feasible
ScrapCanHoldAll ==
    LET cs == cutsList(requiredCuts)
        us == scrapPool(scrap)
    IN  \E f \in [Indices(cs) -> Indices(us)] :
            \A u \in Indices(us) :
                LET mine == AssignedTo(cs, f, u, 1)
                IN  mine = <<>> \/ KerfFeasible(us[u].stockLength, mine)

\* one scrap unit alone can hold all requested units together
OneScrapUnitHoldsAll ==
    \E i \in Indices(scrap) :
        /\ scrap[i].stockLength > 0
        /\ scrap[i].quantity > 0
        /\ KerfFeasible(scrap[i].stockLength, cutsList(requiredCuts))

NoNewBoards == ResultOf("new") = {}

----------------------------------------------------------------------------
(* C1 *)

\* C1: kerf feasibility. Every board of the result satisfies
\* sum(cuts) + kerf * (number of cuts - 1) <= stockLength, whatever the
\* requirements, the scrap pool, the catalog and the preferred max length.
C1_KerfFeasibility ==
    \A i \in Indices(result) :
        KerfFeasible(result[i].stockLength, result[i].cuts)

\* a returned scrap board and a returned new board each hold several cuts
\* with a positive kerf between them
C1_Witness ==
    /\ Done
    /\ kerf > 0
    /\ \E i \in ResultOf("scrap") : Len(result[i].cuts) >= 2
    /\ \E i \in ResultOf("new") : Len(result[i].cuts) >= 2

----------------------------------------------------------------------------
(* C2 *)

----------------------------------------------------------------------------
(* C3 *)

\* C3: every cut on a returned board is a requested cut placed at most once:
\* for each length, the units on the returned boards are at most the units
\* requested; an unplaced unit leaves no trace, the result holding boards only.
C3_PlacedFromRequest ==
    Done =>
        /\ \A L \in AllLengths :
               PlacedOn(Indices(result), L) <= Requested(requiredCuts, L)
        /\ \A i \in Indices(result) :
               /\ DOMAIN result[i] = {"stockLength", "cuts", "remainingWaste",
                                      "scrapRemaining", "wasteRemaining", "source"}
               /\ result[i].source \in {"scrap", "new"}
               /\ result[i].cuts # <<>>

\* some requested unit is on no board while others were placed
C3_Witness ==
    /\ Done
    /\ result # <<>>
    /\ \E L \in AllLengths :
           PlacedOn(Indices(result), L) < Requested(requiredCuts, L)

----------------------------------------------------------------------------
(* C4 *)

----------------------------------------------------------------------------
(* C5 *)

\* the smallest allowed length that fits a cut of length L
SmallestThatFits(L) ==
    CHOOSE a \in {allowedLengths[k] : k \in Indices(allowedLengths)} :
        /\ a >= L
        /\ \A k \in Indices(allowedLengths) :
               allowedLengths[k] >= L => a <= allowedLengths[k]

\* C5: a cut longer than the preferred max length that reaches Phase 2 and
\* that some allowed length fits is placed on a new board, and a board opened
\* for it has the smallest allowed length that fits it.
C5_PreferenceIsNotALimit ==
    (Done /\ preferredMax # <<>>) =>
        \A L \in {unassigned[k] : k \in Indices(unassigned)} :
            (L > preferredMax[1]
             /\ \E a \in Indices(allowedLengths) : allowedLengths[a] >= L)
            => /\ PlacedOn(ResultOf("new"), L) = Count(unassigned, L)
               /\ \A i \in ResultOf("new") :
                      result[i].cuts[1] = L =>
                          result[i].stockLength = SmallestThatFits(L)

----------------------------------------------------------------------------
(* C6 *)

\* C6: with an empty allowedLengths or a negative kerf the call returns the
\* empty list, whatever the requirements and the scrap pool.
C6_InvalidCatalogReturnsNothing ==
    (pc # "idle" /\ (Len(allowedLengths) = 0 \/ kerf < 0)) =>
        (Done /\ result = <<>>)

\* a negative kerf with a non-empty catalog, and a scrap unit that could
\* hold every requested cut
C6_Witness ==
    /\ Done
    /\ kerf < 0
    /\ allowedLengths # <<>>
    /\ cutsList(requiredCuts) # <<>>
    /\ \E i \in Indices(scrap) :
           SumSeq(cutsList(requiredCuts)) <= scrap[i].stockLength

----------------------------------------------------------------------------
(* C7 *)

\* C7: for each stock length the returned scrap boards are at most the scrap
\* units on hand of that length (none for a length absent from the scrap
\* input), and Phase 1 works on exactly the expanded pool.
C7_ScrapBoardsAreScrapUnits ==
    /\ \A i \in ResultOf("scrap") :
           Cardinality({j \in ResultOf("scrap") :
                           result[j].stockLength = result[i].stockLength})
               <= ScrapOnHand(scrap, result[i].stockLength)
    /\ pc \in {"phase1", "phase2"} =>
           \A L \in ScrapLengths :
               Cardinality({j \in Indices(boards) : boards[j].stockLength = L})
                   = ScrapOnHand(scrap, L)

\* every unit of a length with several units on hand is returned
C7_Witness ==
    /\ Done
    /\ \E i \in ResultOf("scrap") :
           /\ ScrapOnHand(scrap, result[i].stockLength) >= 2
           /\ Cardinality({j \in ResultOf("scrap") :
                               result[j].stockLength = result[i].stockLength})
                  = ScrapOnHand(scrap, result[i].stockLength)
    /\ ResultOf("new") # {}

----------------------------------------------------------------------------
(* C8 *)

----------------------------------------------------------------------------
(* C9 *)

Leftover(b) ==
    Max2(0, b.stockLength - (SumSeq(b.cuts) + kerf * (Len(b.cuts) - 1)))

\* r is the multiple of 1e-6 nearest to v, the upper one when two are nearest
NearestMicro(r, v) ==
    /\ r % TicksPerMicro = 0
    /\ 2 * (v - r) < TicksPerMicro
    /\ 2 * (r - v) <= TicksPerMicro

----------------------------------------------------------------------------
(* C10 *)

MergeDone == mcPc = "done"

\* the key of an entry, an omitted materialType counting as 'board'
KeyOf(c) == <<c.length, IF c.materialType = Omitted THEN "board" ELSE c.materialType>>

ValidIn == {i \in Indices(mcIn) : mcIn[i].length > 0 /\ mcIn[i].quantity > 0}

\* summed quantity of the valid input entries of the positions I
RECURSIVE QuantityOf(_)
QuantityOf(I) ==
    IF I = {} THEN 0
    ELSE LET i == CHOOSE j \in I : TRUE
         IN  mcIn[i].quantity + QuantityOf(I \ {i})

\* C10: mergeCuts returns one entry per (length, materialType) key of the
\* valid input entries, an omitted materialType counting as 'board': no key
\* twice, each quantity the sum of the valid input quantities of its key, no
\* key of a valid input entry missing, sorted by length descending.
C10_MergeGroupsAndSorts ==
    MergeDone =>
        /\ \A i, j \in Indices(mcOut) : KeyOf(mcOut[i]) = KeyOf(mcOut[j]) => i = j
        /\ \A i \in Indices(mcOut) :
               /\ mcOut[i].materialType \in {"board", "sheet"}
               /\ {k \in ValidIn : KeyOf(mcIn[k]) = KeyOf(mcOut[i])} # {}
               /\ mcOut[i].quantity =
                      QuantityOf({k \in ValidIn : KeyOf(mcIn[k]) = KeyOf(mcOut[i])})
        /\ \A k \in ValidIn : \E i \in Indices(mcOut) : KeyOf(mcOut[i]) = KeyOf(mcIn[k])
        /\ \A i, j \in Indices(mcOut) : i < j => mcOut[i].length >= mcOut[j].length

\* an entry without materialType merged with a 'board' entry of the same
\* length, an invalid entry dropped, and the shorter length given first
C10_Witness ==
    /\ MergeDone
    /\ Len(mcOut) = 2
    /\ Len(mcIn) = 3
    /\ mcIn[1].length < mcIn[2].length
    /\ \E i, j \in ValidIn :
           /\ i # j
           /\ mcIn[i].materialType = Omitted
           /\ mcIn[j].materialType = "board"
           /\ mcIn[i].length = mcIn[j].length

----------------------------------------------------------------------------
(* C11 *)

\* C11: merge idempotence. mergeCuts applied to a list it returned returns
\* that list again: same entries, same quantities, same order.
C11_MergeIdempotent ==
    (MergeDone /\ mcFirst # <<>> /\ mcIn = mcPrev[1]) => mcOut = mcIn

\* the first call merged two entries of one key, dropped an invalid entry and
\* reordered the rest, and the second call returned
C11_Witness ==
    /\ MergeDone
    /\ mcFirst # <<>>
    /\ mcIn = mcPrev[1]
    /\ Len(mcFirst[1]) = 3
    /\ Len(mcOut) = 2
    /\ mcOut[1].quantity = 2 * MaxMergeQty
    /\ mcFirst[1][1].length < mcFirst[1][2].length
    /\ \E i \in Indices(mcFirst[1]) : mcFirst[1][i].materialType = Omitted

----------------------------------------------------------------------------
(* C12 *)

\* C12: invalid entries are dropped silently. mergeCuts, and optimizeBoardCuts
\* through its requirement expansion and its scrap expansion, return on a list
\* with invalid entries (length not finite or <= 0, quantity <= 0 or not an
\* integer) what they return on the list without them, and no invalid value
\* reaches the merged entries, the cuts or the scrap pool.
C12_InvalidEntriesDropped ==
    /\ (MergeDone /\ mcFirst # <<>>) => mcOut = mcPrev[1]
    /\ (Done /\ original # <<>>) => result = prev
    /\ \A i \in Indices(mcByKey) : validCut(mcByKey[i])
    /\ \A i \in Indices(sortedCuts) : validPair(sortedCuts[i], 1)
    /\ \A i \in Indices(boards) : validPair(boards[i].stockLength, 1)

\* both calls of both functions returned boards or entries; the requirement
\* list held a valid and an invalid entry and the scrap list an invalid entry
C12_Witness ==
    /\ Done
    /\ original # <<>>
    /\ result # <<>>
    /\ mcOut # <<>>
    /\ \E i, j \in Indices(original[1].requiredCuts) :
           /\ validCut(original[1].requiredCuts[i])
           /\ ~validCut(original[1].requiredCuts[j])
    /\ \E k \in Indices(original[1].scrap) : ~validScrap(original[1].scrap[k])

----------------------------------------------------------------------------
(* C13 *)

\* every cuts array the call made, in one list
CutsArrays == arrays.pool \o arrays.boards \o arrays.newBoards \o arrays.result

----------------------------------------------------------------------------
(* C14 *)

\* C14: optimizeBoardCuts terminates and returns a board list. Every
\* invocation reaches its return and stays there, the returned value being a
\* (possibly empty) list of boards, and the call is never anywhere but in
\* the guard, one of the two loops or at its return.
C14_Terminates ==
    /\ <>[](Done /\ \A i \in Indices(result) : result[i].source \in {"scrap", "new"})
    /\ [](pc \in {"idle", "phase1", "phase2", "done"})

\* a call returned the empty list for a cut no board can hold, with an empty
\* scrap pool and a valid catalog
C14_Witness ==
    /\ Done
    /\ result = <<>>
    /\ scrap = <<>>
    /\ ~invalidSpec(allowedLengths, kerf)
    /\ cutsList(requiredCuts) # <<>>

----------------------------------------------------------------------------
(* C15 *)

RECURSIVE MaxSeq(_)
MaxSeq(s) == IF Len(s) = 1 THEN s[1]
             ELSE LET m == MaxSeq(Tail(s)) IN IF s[1] >= m THEN s[1] ELSE m

\* every requested unit is on a returned board
AllPlaced ==
    /\ result # <<>>
    /\ \A L \in AllLengths :
           PlacedOn(Indices(result), L) = Requested(requiredCuts, L)

\* the stock lengths of the boards at hand for n boards at most: the scrap
\* units, and n new boards of the longest allowed length
BoardsAtHand(n) ==
    LET us == scrapPool(scrap)
    IN  [i \in 1..Len(us) |-> us[i].stockLength]
        \o [i \in 1..n |-> MaxSeq(allowedLengths)]

\* some kerf-feasible assignment of all requested units to the scrap units
\* and to new boards of allowed lengths uses at most n boards
PackableInto(n) ==
    LET cs == cutsList(requiredCuts)
        bs == BoardsAtHand(n)
    IN  \E f \in [Indices(cs) -> Indices(bs)] :
            /\ Cardinality({f[i] : i \in Indices(cs)}) <= n
            /\ \A u \in {f[i] : i \in Indices(cs)} :
                   KerfFeasible(bs[u], AssignedTo(cs, f, u, 1))

\* C15: the number of boards is minimal. When every requested cut is placed,
\* no kerf-feasible assignment of the same cuts to the scrap boards at hand
\* and to new boards of allowed lengths uses fewer boards than the result.
C15_MinimizesBoards ==
    (Done /\ AllPlaced) => ~PackableInto(Len(result) - 1)

----------------------------------------------------------------------------
(* C16 *)

\* sum(cuts) + kerf * (number of cuts - 1), 0 for no cut
Used(cuts) == IF cuts = <<>> THEN 0 ELSE SumSeq(cuts) + kerf * (Len(cuts) - 1)

\* stockLength - used >= cut + (kerf if the board already holds a cut, else 0)
Accepts(board, cut) ==
    board.stockLength - Used(board.cuts)
        >= cut + (IF board.cuts # <<>> THEN kerf ELSE 0)

\* the remaining length of the board once the cut is placed on it
RemainingAfterPlacement(board, cut) ==
    board.stockLength - Used(Append(board.cuts, cut))

\* the board of bs that accepts the cut with the smallest remaining length
\* after placement, the earliest such board; 0 when no board accepts it
BestFitFirstWins(bs, cut) ==
    LET A == {i \in Indices(bs) : Accepts(bs[i], cut)}
    IN  IF A = {} THEN 0
        ELSE CHOOSE b \in A :
                 \A i \in A :
                     \/ RemainingAfterPlacement(bs[b], cut)
                            < RemainingAfterPlacement(bs[i], cut)
                     \/ /\ RemainingAfterPlacement(bs[b], cut)
                               = RemainingAfterPlacement(bs[i], cut)
                        /\ b <= i

Descending(s) == \A i, j \in Indices(s) : i < j => s[i] >= s[j]

\* C16: best fit with first-wins ties in Phase 1. The cuts are taken in
\* descending length order; each goes on the scrap board that accepts it and
\* has the smallest remaining length after placement, the earliest in pool
\* order among several such boards; a cut no scrap board accepts is deferred
\* to Phase 2.
C16_BestFitFirstWins ==
    [][(pc = "phase1" /\ idx <= Len(sortedCuts)) =>
          LET cut == sortedCuts[idx]
              b == BestFitFirstWins(boards, cut)
          IN  /\ Descending(sortedCuts)
              /\ IF b = 0
                 THEN boards' = boards /\ unassigned' = Append(unassigned, cut)
                 ELSE /\ boards' = [boards EXCEPT ![b].cuts = Append(@, cut)]
                      /\ unassigned' = unassigned]_vars

----------------------------------------------------------------------------
(* C17 *)

\* requiredCuts = [{24, 4}], allowedLengths = [96], kerf = 0.125, no scrap
ScenarioB ==
    /\ requiredCuts = <<[length |-> 24 * Inch, quantity |-> 4]>>
    /\ allowedLengths = <<96 * Inch>>
    /\ kerf = Inch \div 8
    /\ scrap = <<>>

\* the cut of the step goes on a board of bs exactly when some board of bs
\* accepts it, and the board it goes on accepts it
PlacedIffAccepted(bs, after, cut) ==
    /\ \A i \in Indices(bs) : after[i] # bs[i] => Accepts(bs[i], cut)
    /\ (\E i \in Indices(bs) : Accepts(bs[i], cut))
           <=> (\E i \in Indices(bs) : after[i] = [bs[i] EXCEPT !.cuts = Append(@, cut)])

\* C17: acceptance rule and kerf accounting. In both phases a board takes a
\* cut only if stockLength - used >= cut + (kerf if the board already holds a
\* cut, else 0), with used = sum(cuts) + kerf * (number of cuts - 1), and a
\* cut that some board of the phase accepts is placed: a cut equal to the
\* remaining capacity is accepted and the first cut on a board costs no kerf.
\* With allowedLengths = [96], kerf = 0.125 and 4 cuts of 24 the result is
\* two new boards, [24, 24, 24] with leftover 23.75 and [24] with leftover 72.
C17_AcceptanceAndKerf ==
    /\ [][/\ (pc = "phase1" /\ idx <= Len(sortedCuts)) =>
                PlacedIffAccepted(boards, boards', sortedCuts[idx])
          /\ (pc = "phase2" /\ idx <= Len(unassigned)) =>
                PlacedIffAccepted(newBoards, newBoards', unassigned[idx])]_vars
    /\ []((Done /\ ScenarioB) =>
             /\ Len(result) = 2
             /\ result[1].cuts = <<24 * Inch, 24 * Inch, 24 * Inch>>
             /\ result[1].stockLength = 96 * Inch
             /\ 4 * result[1].remainingWaste = 95 * Inch
             /\ result[1].source = "new"
             /\ result[2].cuts = <<24 * Inch>>
             /\ result[2].stockLength = 96 * Inch
             /\ result[2].remainingWaste = 72 * Inch
             /\ result[2].source = "new")

\* scenario B has returned
C17_Witness ==
    /\ Done
    /\ ScenarioB
    /\ Len(result) = 2

----------------------------------------------------------------------------
(* C18 *)

\* C18: Phase 2 opens a new board only when no new board opened earlier in
\* the run accepts the cut; a cut that such a board accepts goes on the one
\* with the smallest remaining length after placement, the earliest opened
\* among several such boards, and no board is opened for it.
C18_ReuseOpenedBoards ==
    [][(pc = "phase2" /\ idx <= Len(unassigned)) =>
          LET cut == unassigned[idx]
              b == BestFitFirstWins(newBoards, cut)
          IN  IF b # 0
              THEN newBoards' = [newBoards EXCEPT ![b].cuts = Append(@, cut)]
              ELSE \/ newBoards' = newBoards
                   \/ /\ Len(newBoards') = Len(newBoards) + 1
                      /\ SubSeq(newBoards', 1, Len(newBoards)) = newBoards
                      /\ newBoards'[Len(newBoards')].cuts = <<cut>>]_vars

\* a third cut of 36 opened a second new board, and the cut of 24 that both
\* boards accept went on the first, which it fills
C18_Witness ==
    /\ Done
    /\ Len(result) = 2
    /\ result[1].source = "new"
    /\ result[1].cuts = <<36 * Inch, 36 * Inch, 24 * Inch>>
    /\ result[1].remainingWaste = 0
    /\ result[2].source = "new"
    /\ result[2].cuts = <<36 * Inch>>

----------------------------------------------------------------------------
(* C19 *)

Allowed == {allowedLengths[k] : k \in Indices(allowedLengths)}

\* a comes before b in the order of the candidates: lengths <= preferredMax
\* ascending, then lengths > preferredMax ascending; all ascending without
\* a preferredMax
CandidateBefore(a, b) ==
    LET within(x) == preferredMax = <<>> \/ x <= preferredMax[1]
    IN  \/ within(a) /\ ~within(b)
        \/ (within(a) <=> within(b)) /\ a < b

\* x is the first allowed length >= cut in that order
FirstCandidate(x, cut) ==
    /\ x \in Allowed
    /\ x >= cut
    /\ \A y \in Allowed : (y >= cut /\ y # x) => CandidateBefore(x, y)

\* C19: Phase 2 stock choice. When a new board is opened for a cut, its
\* stockLength is the first allowed length >= the cut in the order: allowed
\* lengths <= preferredMax ascending, then allowed lengths > preferredMax
\* ascending; the board keeps that stockLength, in the run and in the result.
C19_StockChoice ==
    [][pc = "phase2" =>
          /\ Len(newBoards') > Len(newBoards) =>
                FirstCandidate(newBoards'[Len(newBoards')].stockLength,
                               unassigned[idx])
          /\ \A i \in Indices(newBoards) :
                 newBoards'[i].stockLength = newBoards[i].stockLength
          /\ pc' = "done" =>
                \A i \in ResultOf("new")' :
                    FirstCandidate(result'[i].stockLength, result'[i].cuts[1])]_vars

\* new boards of 48 were opened from a catalog given as [96, 48], with a
\* preferred max length
C19_Witness ==
    /\ Done
    /\ allowedLengths = <<96 * Inch, 48 * Inch>>
    /\ preferredMax # <<>>
    /\ Cardinality(ResultOf("new")) >= 2
    /\ \A i \in ResultOf("new") : result[i].stockLength = 48 * Inch

----------------------------------------------------------------------------
(* C20 *)

\* the cuts lists of the boards of bs, in order
RECURSIVE CutsOf(_)
CutsOf(bs) == IF bs = <<>> THEN <<>> ELSE <<Head(bs).cuts>> \o CutsOf(Tail(bs))

\* the returned boards of the given source, in order
RECURSIVE Returned(_, _)
Returned(rs, source) ==
    IF rs = <<>> THEN <<>>
    ELSE (IF Head(rs).source = source THEN <<Head(rs)>> ELSE <<>>)
         \o Returned(Tail(rs), source)

\* C20: Phase 2 leaves scrap boards unchanged. No step of Phase 2 changes a
\* scrap board or the scrap boards already in the result; the source = scrap
\* boards of the result hold exactly the cuts Phase 1 placed on them, which
\* with the deferred cuts are all the cuts; and the cuts on source = new
\* boards are deferred cuts, each on one new board at most.
C20_ScrapBoardsFinal ==
    /\ [][pc = "phase2" =>
              /\ boards' = boards
              /\ unassigned' = unassigned
              /\ SubSeq(result', 1, Len(result)) = result]_vars
    /\ [](pc \in {"phase2", "done"} =>
              /\ CutsOf(Returned(result, "scrap")) = CutsOf(placed(boards))
              /\ \A L \in AllLengths \cup {sortedCuts[k] : k \in Indices(sortedCuts)} :
                     /\ PlacedOn(ResultOf("scrap"), L) + Count(unassigned, L)
                            = Count(sortedCuts, L)
                     /\ PlacedOn(ResultOf("new"), L) <= Count(unassigned, L))

\* scrap boards and new boards returned, and a deferred cut on no board
C20_Witness ==
    /\ Done
    /\ ResultOf("scrap") # {}
    /\ ResultOf("new") # {}
    /\ \E k \in Indices(unassigned) :
           PlacedOn(ResultOf("new"), unassigned[k]) < Count(unassigned, unassigned[k])

----------------------------------------------------------------------------
(* C22 *)

\* the scrap pool as the call leaves it: the boards Phase 1 worked on, or
\* the untouched scrap units when the call returned before Phase 1
FinalPool ==
    IF invalidSpec(allowedLengths, kerf) \/ cutsList(requiredCuts) = <<>>
    THEN scrapPool(scrap)
    ELSE boards

\* the lengths of the cuts on new boards and of the requested units on no board
OffScrap ==
    {L \in AllLengths :
        \/ PlacedOn(ResultOf("new"), L) > 0
        \/ PlacedOn(Indices(result), L) < Requested(requiredCuts, L)}

NoScrapBoardAccepts ==
    \A L \in OffScrap :
        \A i \in Indices(FinalPool) : ~Accepts(FinalPool[i], L)

\* C22 as stated: when the call returns, no cut on a new board or on no
\* board would be accepted by a board of the scrap pool, used or unused, in
\* its final state.
C22_ScrapMaximal ==
    Done => NoScrapBoardAccepts

\* C22 (amended): the same when the catalog is valid (allowedLengths not
\* empty and kerf >= 0), the call returning the empty list otherwise.
C22_ScrapMaximalValidCatalog ==
    []((Done /\ ~invalidSpec(allowedLengths, kerf)) => NoScrapBoardAccepts)

\* a scrap unit stayed unused and another took a cut while a cut is on a
\* new board
C22_Witness ==
    /\ Done
    /\ ~invalidSpec(allowedLengths, kerf)
    /\ \E i \in Indices(boards) : boards[i].cuts = <<>>
    /\ ResultOf("scrap") # {}
    /\ ResultOf("new") # {}

----------------------------------------------------------------------------
(* C23 *)

\* C23: completeness below the minimum stock length. With kerf >= 0 and a
\* non-empty catalog, every requested unit of a length <= the smallest
\* allowed length is on one returned board, none missing and none twice,
\* whatever the scrap pool and the preferred max length.
C23_CompleteBelowMinStock ==
    [](Done /\ kerf >= 0 /\ allowedLengths # <<>> =>
          \A L \in AllLengths :
              L <= minStock(allowedLengths) =>
                  PlacedOn(Indices(result), L) = Requested(requiredCuts, L))

\* with a scrap pool and a preferred max length, units of a length below
\* the smallest allowed length went on scrap boards and on new boards while
\* a longer cut is on no board
C23_Witness ==
    /\ Done
    /\ kerf > 0
    /\ scrap # <<>>
    /\ preferredMax # <<>>
    /\ ResultOf("scrap") # {}
    /\ ResultOf("new") # {}
    /\ \E L \in AllLengths :
           /\ L <= minStock(allowedLengths)
           /\ PlacedOn(ResultOf("new"), L) > 0
    /\ \E L \in AllLengths :
           /\ L > minStock(allowedLengths)
           /\ PlacedOn(Indices(result), L) < Requested(requiredCuts, L)

----------------------------------------------------------------------------
(* C26 *)

\* the allowed lengths <= preferredMax
WithinPreferred ==
    {a \in Allowed : preferredMax # <<>> /\ a <= preferredMax[1]}

Smallest(S) == CHOOSE x \in S : \A y \in S : x <= y

\* the smallest allowed length <= preferredMax when one exists, otherwise the
\* smallest allowed length
PurchasedLength ==
    IF WithinPreferred # {} THEN Smallest(WithinPreferred) ELSE Smallest(Allowed)

----------------------------------------------------------------------------
(* C27 *)

HoldsCut(b) == b.cuts # <<>>

\* stock length and cuts of each board of bs, in order
Shape(bs) == [i \in Indices(bs) |-> <<bs[i].stockLength, bs[i].cuts>>]

\* C27: result shape. Every returned board holds at least one cut; the
\* source = scrap boards all come before the source = new boards; the scrap
\* boards are the scrap units that received a cut, in scrap pool order; the
\* new boards are in the order in which Phase 2 opened them, a board once
\* opened keeping its position.
C27_ResultShape ==
    /\ [](Done =>
             /\ \A i \in Indices(result) : result[i].cuts # <<>>
             /\ \A i \in ResultOf("scrap") : \A j \in ResultOf("new") : i < j
             /\ Shape(Returned(result, "scrap")) = Shape(SelectSeq(boards, HoldsCut))
             /\ Shape(Returned(result, "new")) = Shape(newBoards))
    /\ [](pc \in {"phase1", "phase2"} =>
             /\ Len(boards) = Len(scrapPool(scrap))
             /\ \A i \in Indices(boards) :
                    boards[i].stockLength = scrapPool(scrap)[i].stockLength)
    /\ [][pc = "phase2" =>
              /\ Len(newBoards') \in {Len(newBoards), Len(newBoards) + 1}
              /\ \A i \in Indices(newBoards) :
                     /\ newBoards'[i].stockLength = newBoards[i].stockLength
                     /\ newBoards'[i].cuts[1] = newBoards[i].cuts[1]]_vars

\* a scrap unit that received no cut stands in the pool before one that
\* did, and several new boards were opened
C27_Witness ==
    /\ Done
    /\ \E i, j \in Indices(boards) :
           i < j /\ boards[i].cuts = <<>> /\ boards[j].cuts # <<>>
    /\ ResultOf("scrap") # {}
    /\ Cardinality(ResultOf("new")) >= 2

----------------------------------------------------------------------------
(* C28 *)

\* s is t with perhaps more elements after it
Extends(s, t) == Len(s) >= Len(t) /\ SubSeq(s, 1, Len(t)) = t

\* C28: cuts in placement order, non-increasing. A cut placed on a board
\* goes after the cuts the board already holds, in both phases; a returned
\* board lists its cuts as its working board held them; and on every
\* returned board each cut is <= the cut before it.
C28_CutsNonIncreasing ==
    /\ [][pc = "phase1" =>
              \A i \in Indices(boards) : Extends(boards'[i].cuts, boards[i].cuts)]_vars
    /\ [][pc = "phase2" =>
              \A i \in Indices(newBoards) :
                  Extends(newBoards'[i].cuts, newBoards[i].cuts)]_vars
    /\ [](Done =>
             /\ CutsOf(Returned(result, "scrap")) = CutsOf(SelectSeq(boards, HoldsCut))
             /\ CutsOf(Returned(result, "new")) = CutsOf(newBoards)
             /\ \A i \in Indices(result) : Descending(result[i].cuts))

\* from a requirement list that is not in descending order, a scrap board
\* and a new board each hold cuts of two lengths
C28_Witness ==
    /\ Done
    /\ \E i, j \in Indices(requiredCuts) :
           i < j /\ requiredCuts[i].length < requiredCuts[j].length
    /\ \E i \in ResultOf("scrap") :
           Len(result[i].cuts) >= 2 /\ result[i].cuts[1] > result[i].cuts[2]
    /\ \E i \in ResultOf("new") :
           Len(result[i].cuts) >= 2 /\ result[i].cuts[1] > result[i].cuts[2]

----------------------------------------------------------------------------
(* C25 *)

\* the requirement list of the first call
FirstRequiredCuts == original[1].requiredCuts

\* C25: the result depends only on the multiset of expanded cut lengths. A
\* call on the entries reordered, on the list with one entry split into two
\* entries of the same length, or on mergeCuts(requiredCuts) asks for the
\* same units of every length and returns the board list the call on
\* requiredCuts returned: same boards, same order, same cuts.
C25_SameMultisetSameBoards ==
    (Done /\ original # <<>>) =>
        /\ \A L \in SameLengths :
               Requested(requiredCuts, L) = Requested(FirstRequiredCuts, L)
        /\ result = prev

\* the second call was on a list other than the first: mergeCuts made one
\* entry of several, or an entry was split, or the lengths came in another
\* order; it returned a scrap board and a new board
C25_Witness ==
    /\ Done
    /\ original # <<>>
    /\ requiredCuts # FirstRequiredCuts
    /\ ResultOf("scrap") # {}
    /\ ResultOf("new") # {}
    /\ \/ requiredCuts = mcOut /\ Len(requiredCuts) < Len(FirstRequiredCuts)
       \/ Len(requiredCuts) > Len(FirstRequiredCuts)
       \/ /\ Len(requiredCuts) = Len(FirstRequiredCuts)
          /\ requiredCuts[1].length # FirstRequiredCuts[1].length

----------------------------------------------------------------------------
(* C21 *)

\* the boards of the given source and stock length in a diagram
BoardsIn(diagram, source, L) ==
    Cardinality({j \in Indices(diagram.boards) :
                    /\ diagram.boards[j].source = source
                    /\ diagram.boards[j].stockLength = L})

\* the groups using the board spec id; diagram i is the diagram of group i
GroupsUsing(id) ==
    {i \in Indices(groups) :
        groups[i].materialType = "board" /\ groups[i].boardSpecId = id}

\* the boards of the given source and stock length in the diagrams I
RECURSIVE BoardsOver(_, _, _, _)
BoardsOver(diagrams, I, source, L) ==
    IF I = {} THEN 0
    ELSE LET i == CHOOSE j \in I : TRUE
         IN  BoardsIn(diagrams[i], source, L) + BoardsOver(diagrams, I \ {i}, source, L)

\* the stock lengths of the boards in the diagrams
StockLengthsIn(diagrams) ==
    UNION {{diagrams[i].boards[j].stockLength : j \in Indices(diagrams[i].boards)} :
           i \in Indices(diagrams)}

RECURSIVE SumOfCounts(_)
SumOfCounts(items) ==
    IF items = <<>> THEN 0 ELSE Head(items).count + SumOfCounts(Tail(items))

RECURSIVE SumOverLengths(_, _, _, _)
SumOverLengths(diagrams, I, source, Ls) ==
    IF Ls = {} THEN 0
    ELSE LET L == CHOOSE x \in Ls : TRUE
         IN  BoardsOver(diagrams, I, source, L)
             + SumOverLengths(diagrams, I, source, Ls \ {L})

\* C21: shopping list aggregation. The shopping list has one entry for each
\* board spec id of which some group purchases a board, and no other; the
\* counts of its items sum to the number of source = new boards over all
\* groups using that spec; each item's count is the number of those boards
\* with the item's stockLength, so that no source = scrap board is counted;
\* and the items are in ascending stockLength order, one per length.
C21_ShoppingList ==
    projectResult # <<>> =>
        LET r == projectResult[1]
            Ls == StockLengthsIn(r.diagrams)
            new(id, L) == BoardsOver(r.diagrams, GroupsUsing(id), "new", L)
        IN  /\ Len(r.diagrams) = Len(groups)
            /\ \A e \in Indices(r.shoppingList) :
                   LET id == r.shoppingList[e].nominalSizeId
                       items == r.shoppingList[e].items
                   IN  /\ items # <<>>
                       /\ \A k \in Indices(items) :
                              /\ items[k].count = new(id, items[k].stockLength)
                              /\ items[k].count >= 1
                       /\ SumOfCounts(items)
                              = SumOverLengths(r.diagrams, GroupsUsing(id), "new", Ls)
                       /\ \A k, l \in Indices(items) :
                              k < l => items[k].stockLength < items[l].stockLength
                       /\ \A f \in Indices(r.shoppingList) :
                              r.shoppingList[f].nominalSizeId = id => f = e
            /\ \A i \in Indices(groups) : \A L \in Ls :
                   new(groups[i].boardSpecId, L) > 0 =>
                       \E e \in Indices(r.shoppingList) :
                           /\ r.shoppingList[e].nominalSizeId = groups[i].boardSpecId
                           /\ \E k \in Indices(r.shoppingList[e].items) :
                                  r.shoppingList[e].items[k].stockLength = L

\* two groups of one spec each purchase a board and one of them also takes
\* a scrap board: the entry of the spec counts the two new boards
C21_Witness ==
    /\ projectResult # <<>>
    /\ \E i, j \in Indices(groups) :
           /\ i # j
           /\ groups[i].boardSpecId = groups[j].boardSpecId
           /\ \E b \in Indices(projectResult[1].diagrams[i].boards) :
                  projectResult[1].diagrams[i].boards[b].source = "new"
           /\ \E b \in Indices(projectResult[1].diagrams[j].boards) :
                  projectResult[1].diagrams[j].boards[b].source = "new"
           /\ \E b \in Indices(projectResult[1].diagrams[i].boards) :
                  projectResult[1].diagrams[i].boards[b].source = "scrap"
    /\ \E e \in Indices(projectResult[1].shoppingList) :
           SumOfCounts(projectResult[1].shoppingList[e].items) = 2

----------------------------------------------------------------------------
(* C24 *)

\* the boards of stock length L on hand in the inventory inv
RECURSIVE OnHand(_, _)
OnHand(inv, L) ==
    IF inv = <<>> THEN 0
    ELSE (IF Head(inv).stockLength = L THEN Head(inv).quantity ELSE 0)
         + OnHand(Tail(inv), L)

\* C24: a scrap unit is consumed by one group at most. In the diagrams of
\* one generateProjectResult call, the source = scrap boards of a stock
\* length over all groups are no more than the boards of that stock length
\* in the scrap inventory passed to the call.
C24_ScrapUnitInOneGroup ==
    [][handleGenerate =>
          LET diagrams == projectResult'[1].diagrams
          IN  \A L \in StockLengthsIn(diagrams) :
                  BoardsOver(diagrams, Indices(diagrams), "scrap", L)
                      <= OnHand(scrapPassed, L)]_vars

----------------------------------------------------------------------------
(* C29 *)

\* the entry of inv with the key of e, as a set
SameKey(inv, e) ==
    {i \in Indices(inv) :
        /\ inv[i].nominalSizeId = e.nominalSizeId
        /\ inv[i].stockLength = e.stockLength}

\* C29: scrap inventory quantities stay valid. From a merged inventory, after
\* any sequence of addBoardDraft, updateBoardQuantity, removeBoardScrap and
\* handleGenerate, every board entry has an integer quantity >= 1 and the
\* inventory is still merged (one entry per size and length); and the
\* inventory that handleGenerate sets with scrap use on gives no entry a
\* quantity above the one it has, nor holds an entry that is not there.
C29_QuantitiesStayValid ==
    /\ \A i \in Indices(scrapInventory) :
           /\ isInteger(scrapInventory[i].quantity)
           /\ scrapInventory[i].quantity >= 1
           /\ SameKey(scrapInventory, scrapInventory[i]) = {i}
    /\ useScrapWhenGenerating =>
           \A res \in generateProjectResult(groups, scrapPassed) :
               LET next == scrapAfterRun(scrapInventory, res.diagrams)
               IN  \A i \in Indices(next) :
                       \E j \in SameKey(scrapInventory, next[i]) :
                           next[i].quantity <= scrapInventory[j].quantity

\* a run with scrap use on consumed one board of an inventory that holds
\* three entries, one of them entered with the draft row, and boards of the
\* consumed size and length remain
C29_Witness ==
    /\ lastRunScrapNote # <<>>
    /\ lastRunScrapNote[1].usedCount = 1
    /\ useScrapWhenGenerating
    /\ Len(scrapInventory) = 3
    /\ \E i \in Indices(scrapInventory) :
           /\ scrapInventory[i].nominalSizeId = "2x4"
           /\ scrapInventory[i].stockLength = 48 * Inch

----------------------------------------------------------------------------
(* C30 *)

\* C30: the list of material groups is never empty. From the single default
\* group, after any sequence of addMaterialGroup and removeGroup (and
\* updateGroup) the list holds at least one group, and a removeGroup on a
\* list of one group leaves the list as it is.
C30_GroupsNeverEmpty ==
    /\ [](Len(groups) >= 1)
    /\ [][(removeGroup /\ Len(groups) = 1) => groups' = groups]_vars

\* groups were added and removed until one is left, which is not the default
\* group; removeGroup with its id is the call the claim is about
C30_Witness ==
    /\ Len(groups) = 1
    /\ groups[1].id # 1
    /\ groupCounter >= 3

====
